---------------------------- MODULE Spec2Model ----------------------------
(***************************************************************************)
(* Degree Builder of CUGraph (src/main/js/ui/degreeBuilder.js): the        *)
(* semester/slot schedule, its mutators, the prerequisite expression       *)
(* engine, the prerequisite validator and the credit categorizer.          *)
(*                                                                         *)
(* Conventions                                                             *)
(*  - A JavaScript string is a sequence of one-character strings, so that  *)
(*    trimming, upper-casing, character filtering and regular-expression   *)
(*    scanning are computed, never assumed.  null and "" are both << >>    *)
(*    (the code only ever tests course ids and codes for truthiness).      *)
(*  - JavaScript array index i is position i + 1 of a TLA+ sequence; the   *)
(*    parameters of the actions are JavaScript indexes.                    *)
(*  - Credits are integers counted in hundredths of a credit.              *)
(***************************************************************************)
EXTENDS Integers, Sequences, FiniteSets, TLC

(***************************************************************************)
(* Characters and strings                                                  *)
(***************************************************************************)
LowerSeq ==
  << "a","b","c","d","e","f","g","h","i","j","k","l","m",
     "n","o","p","q","r","s","t","u","v","w","x","y","z" >>

UpperSeq ==
  << "A","B","C","D","E","F","G","H","I","J","K","L","M",
     "N","O","P","Q","R","S","T","U","V","W","X","Y","Z" >>

DigitChars == {"0","1","2","3","4","5","6","7","8","9"}

LowerChars == {LowerSeq[i] : i \in 1..26}

UpperChars == {UpperSeq[i] : i \in 1..26}

LetterChars == LowerChars \cup UpperChars

WhiteChars == {" ", "\t", "\n"}

WordChars == LetterChars \cup DigitChars \cup {"_"}

toUpperChar(c) ==
  IF c \in LowerChars
    THEN UpperSeq[CHOOSE i \in 1..26 : LowerSeq[i] = c]
    ELSE c

toLowerChar(c) ==
  IF c \in UpperChars
    THEN LowerSeq[CHOOSE i \in 1..26 : UpperSeq[i] = c]
    ELSE c

toUpperCase(s) == [i \in 1..Len(s) |-> toUpperChar(s[i])]

toLowerCase(s) == [i \in 1..Len(s) |-> toLowerChar(s[i])]

IsAlnumUpper(c) == c \in UpperChars \cup DigitChars

\* String(code || "").trim().toUpperCase().replace(/[^A-Z0-9]/g, "")
\* (the trimmed white space is removed by the replace as well).
normalizeCourseCode(code) == SelectSeq(toUpperCase(code), IsAlnumUpper)

\* A slip: the characters are filtered before the case is folded.
normalizeRequirementCodeUnfolded(code) == toUpperCase(SelectSeq(code, IsAlnumUpper))

normalizeRequirementCode(code) == SelectSeq(toUpperCase(code), IsAlnumUpper)

SeqToSet(s) == {s[i] : i \in 1..Len(s)}

\* Array.from(new Set(arr)): first occurrences, in order.
RECURSIVE dedupe(_)
dedupe(s) ==
  IF Len(s) = 0 THEN << >>
  ELSE LET front == dedupe(SubSeq(s, 1, Len(s) - 1))
           item  == s[Len(s)]
       IN  IF item \in SeqToSet(front) THEN front ELSE Append(front, item)

(***************************************************************************)
(* Prerequisite expression engine                                          *)
(***************************************************************************)
TokAnd == << "a","n","d" >>

TokOr == << "o","r" >>

TokOpen == << "(" >>

TokClose == << ")" >>

isOp(t) == t = TokAnd \/ t = TokOr

\* A slip: "and" and "or" given the same precedence.
precedenceFlat(t) == 1

precedence(t) == IF t = TokAnd THEN 2 ELSE 1

\* String(rawText).replace(/[\/|]/g, " or ")
RECURSIVE replaceSlashes(_)
replaceSlashes(s) ==
  IF Len(s) = 0 THEN << >>
  ELSE IF Head(s) \in {"/", "|"}
         THEN << " ","o","r"," " >> \o replaceSlashes(Tail(s))
         ELSE << Head(s) >> \o replaceSlashes(Tail(s))

\* \b at position p (between s[p-1] and s[p]).
wordBoundary(s, p) ==
  LET before == p > 1 /\ p - 1 <= Len(s) /\ s[p - 1] \in WordChars
      after  == p >= 1 /\ p <= Len(s) /\ s[p] \in WordChars
  IN  before # after

allIn(s, from, n, chars) ==
  /\ from + n - 1 <= Len(s)
  /\ \A i \in from..(from + n - 1) : s[i] \in chars

\* The ways  \b[A-Za-z]{1,4}\s?\d{1,3}(?:\.\d+)?\b  matches at p:
\* <<letters, spaces, digits, decimals>> (decimals = 0: no decimal part).
codeMatches(s, p) ==
  { m \in (1..4) \X (0..1) \X (1..3) \X (0..Len(s)) :
      /\ wordBoundary(s, p)
      /\ allIn(s, p, m[1], LetterChars)
      /\ allIn(s, p + m[1], m[2], WhiteChars)
      /\ allIn(s, p + m[1] + m[2], m[3], DigitChars)
      /\ \/ m[4] = 0
         \/ /\ allIn(s, p + m[1] + m[2] + m[3], 1, {"."})
            /\ allIn(s, p + m[1] + m[2] + m[3] + 1, m[4], DigitChars)
      /\ wordBoundary(s, p + m[1] + m[2] + m[3] + (IF m[4] = 0 THEN 0 ELSE 1 + m[4])) }

matchLen(m) == m[1] + m[2] + m[3] + (IF m[4] = 0 THEN 0 ELSE 1 + m[4])

\* Greedy quantifiers with backtracking: the match the engine reports is the
\* first in the order (more letters, the space, more digits, longer decimal).
prefers(a, b) ==
  \/ a[1] > b[1]
  \/ a[1] = b[1] /\ a[2] > b[2]
  \/ a[1] = b[1] /\ a[2] = b[2] /\ a[3] > b[3]
  \/ a[1] = b[1] /\ a[2] = b[2] /\ a[3] = b[3] /\ a[4] >= b[4]

\* Length of the reported match among ms, 0 when there is none.
bestMatchLen(ms) ==
  IF ms = {} THEN 0
  ELSE matchLen(CHOOSE a \in ms : \A b \in ms : prefers(a, b))

\* Length of the course-code match at p, 0 when there is none.
codeMatchLen(s, p) == bestMatchLen(codeMatches(s, p))

\* \bword\b, case-insensitively, at p.
keywordAt(s, p, word) ==
  /\ wordBoundary(s, p)
  /\ p + Len(word) - 1 <= Len(s)
  /\ toLowerCase(SubSeq(s, p, p + Len(word) - 1)) = word
  /\ wordBoundary(s, p + Len(word))

\* Length of the match of the tokenizer's regular expression at p (its
\* alternatives in order: codeLen is the length of the course-code match),
\* 0 when none matches there.
alternativeLen(s, p, codeLen) ==
  IF codeLen > 0 THEN codeLen
  ELSE IF s[p] = "(" \/ s[p] = ")" THEN 1
  ELSE IF keywordAt(s, p, TokAnd) THEN 3
  ELSE IF keywordAt(s, p, TokOr) THEN 2
  ELSE 0

tokenMatchLen(s, p) == alternativeLen(s, p, codeMatchLen(s, p))

\* The token pushed for the match raw (lower = raw.toLowerCase(),
\* canon = normalizeRequirementCode(raw)), as a list of zero or one token.
pushedToken(raw, lower, canon) ==
  IF lower = TokAnd \/ lower = TokOr \/ raw = TokOpen \/ raw = TokClose
    THEN << lower >>
    ELSE IF Len(canon) > 0 THEN << canon >> ELSE << >>

tokenOfMatch(raw) == pushedToken(raw, toLowerCase(raw), normalizeRequirementCode(raw))

\* The loop of re.exec over the normalized text: n is the length of the
\* match at p.
RECURSIVE tokenizeFrom(_, _)
RECURSIVE tokenizeMatch(_, _, _)
tokenizeMatch(s, p, n) ==
  IF n = 0 THEN tokenizeFrom(s, p + 1)
  ELSE tokenOfMatch(SubSeq(s, p, p + n - 1)) \o tokenizeFrom(s, p + n)

tokenizeFrom(s, p) ==
  IF p > Len(s) THEN << >> ELSE tokenizeMatch(s, p, tokenMatchLen(s, p))

tokenizePrereqs(rawText) ==
  IF Len(rawText) = 0 THEN << >> ELSE tokenizeFrom(replaceSlashes(rawText), 1)

\* /\b([A-Za-z]{1,4})\s?(\d{1,3}(?:\.\d+)?)\b/g, each match canonicalized.
RECURSIVE extractFrom(_, _)
RECURSIVE extractMatch(_, _, _)
extractMatch(s, p, n) ==
  IF n = 0 THEN extractFrom(s, p + 1)
  ELSE << normalizeRequirementCode(SubSeq(s, p, p + n - 1)) >>
         \o extractFrom(s, p + n)

extractFrom(s, p) ==
  IF p > Len(s) THEN << >> ELSE extractMatch(s, p, codeMatchLen(s, p))

extractPrereqCodes(rawText) ==
  IF Len(rawText) = 0 THEN << >>
  ELSE dedupe(SelectSeq(extractFrom(rawText, 1), LAMBDA c : Len(c) > 0))

\* rpnFromTokens, an operator token: pop the operators of higher or equal
\* precedence to the output, then push the token.
RECURSIVE rpnPopOps(_, _, _)
rpnPopOps(output, ops, token) ==
  IF Len(ops) > 0 /\ isOp(ops[Len(ops)])
       /\ precedence(ops[Len(ops)]) >= precedence(token)
    THEN rpnPopOps(Append(output, ops[Len(ops)]), SubSeq(ops, 1, Len(ops) - 1), token)
    ELSE [output |-> output, ops |-> Append(ops, token)]

\* rpnFromTokens, a ")" token: pop to the output down to the nearest "(",
\* and drop that "(" when there is one.
RECURSIVE rpnCloseParen(_, _)
rpnCloseParen(output, ops) ==
  IF Len(ops) > 0 /\ ops[Len(ops)] # TokOpen
    THEN rpnCloseParen(Append(output, ops[Len(ops)]), SubSeq(ops, 1, Len(ops) - 1))
    ELSE [output |-> output,
          ops |-> IF Len(ops) > 0 THEN SubSeq(ops, 1, Len(ops) - 1) ELSE ops]

\* rpnFromTokens, after the loop: pop everything, keeping the operators.
RECURSIVE rpnDrain(_, _)
rpnDrain(output, ops) ==
  IF Len(ops) = 0 THEN output
  ELSE LET op == ops[Len(ops)]
       IN  rpnDrain(IF op # TokOpen /\ op # TokClose THEN Append(output, op) ELSE output,
                    SubSeq(ops, 1, Len(ops) - 1))

\* The loop over the tokens; st holds the output list and the operator stack.
RECURSIVE rpnLoop(_, _, _)
rpnLoop(tokens, i, st) ==
  IF i > Len(tokens) THEN rpnDrain(st.output, st.ops)
  ELSE IF isOp(tokens[i])
    THEN rpnLoop(tokens, i + 1, rpnPopOps(st.output, st.ops, tokens[i]))
  ELSE IF tokens[i] = TokOpen
    THEN rpnLoop(tokens, i + 1, [st EXCEPT !.ops = Append(@, tokens[i])])
  ELSE IF tokens[i] = TokClose
    THEN rpnLoop(tokens, i + 1, rpnCloseParen(st.output, st.ops))
  ELSE rpnLoop(tokens, i + 1, [st EXCEPT !.output = Append(@, tokens[i])])

rpnFromTokens(tokens) == rpnLoop(tokens, 1, [output |-> << >>, ops |-> << >>])

\* The "and" of two clause lists: every left clause joined to every right one,
\* left-major.
RECURSIVE crossProduct(_, _, _, _)
crossProduct(left, right, i, j) ==
  IF i > Len(left) THEN << >>
  ELSE IF j > Len(right) THEN crossProduct(left, right, i + 1, 1)
  ELSE << left[i] \o right[j] >> \o crossProduct(left, right, i, j + 1)

\* dnfFromRpn: the stack machine.  [ok |-> FALSE] stands for the early
\* "return []" when an operator lacks an operand.
RECURSIVE dnfLoop(_, _, _)
dnfLoop(rpn, i, stack) ==
  IF i > Len(rpn) THEN [ok |-> TRUE, stack |-> stack]
  ELSE LET token == rpn[i]
       IN  IF ~isOp(token)
             THEN dnfLoop(rpn, i + 1, Append(stack, << << token >> >>))
           ELSE IF Len(stack) < 2
             THEN [ok |-> FALSE, stack |-> << >>]
           ELSE LET right == stack[Len(stack)]
                    left  == stack[Len(stack) - 1]
                    rest  == SubSeq(stack, 1, Len(stack) - 2)
                IN  IF token = TokOr
                      THEN dnfLoop(rpn, i + 1, Append(rest, left \o right))
                      ELSE dnfLoop(rpn, i + 1,
                                   Append(rest, crossProduct(left, right, 1, 1)))

dnfFromRpn(rpn) ==
  LET r == dnfLoop(rpn, 1, << >>)
  IN  IF ~r.ok THEN << >>
      ELSE IF Len(r.stack) # 1 THEN << >>
      ELSE r.stack[1]

\* A slip: every code found becomes a clause of its own, an alternative.
fallbackGroupsApart(codes) == [k \in 1..Len(codes) |-> << codes[k] >>] @@ << >>

\* return codes.length ? [codes] : []
fallbackGroups(codes) == IF Len(codes) > 0 THEN << codes >> ELSE << >>

\* parsePrereqGroups from the point where the clause list dnf is known.
groupsOfDnf(rawText, dnf) ==
  IF Len(dnf) = 0
    THEN fallbackGroups(extractPrereqCodes(rawText))
    ELSE [g \in 1..Len(dnf) |-> dedupe(dnf[g])]

\* parsePrereqGroups from the point where the tokens are known.
groupsOfTokens(rawText, tokens) ==
  IF Len(tokens) = 0 THEN << >>
  ELSE groupsOfDnf(rawText, dnfFromRpn(rpnFromTokens(tokens)))

parsePrereqGroups(rawText) ==
  IF Len(rawText) = 0 THEN << >>
  ELSE groupsOfTokens(rawText, tokenizePrereqs(rawText))

(***************************************************************************)
(* Bounds of the model                                                     *)
(***************************************************************************)
\* Supplemental slots a semester may be given (addSlot, and the slots that
\* moveCourse and assignCourseToSemester append to a full semester).
MaxExtraSlots == 1

\* Semesters addSemester may append to the default ones.
MaxAddedSemesters == 1

\* Preset file loads started over a run (presetLoadToken).
MaxPresetLoads == 2

(***************************************************************************)
(* Static data: the course catalog (nodes), the preset index and files     *)
(***************************************************************************)
NULL == "null"

NoCourse == << >>

CS1 == << "C","S"," ","1" >>

CS2 == << "C","S"," ","2" >>

MA1 == << "M","A"," ","1" >>

MA2 == << "M","A"," ","2" >>

HU1 == << "H","U"," ","1" >>

SS1 == << "S","S"," ","1" >>

\* A course id that is not in the catalog.
XX9 == << "X","X"," ","9" >>

\* A catalog course whose prerequisite is a course the catalog does not hold.
CS3 == << "C","S"," ","3" >>

\* "XX 9"
TextCS3 == XX9

\* "CS 1 and (MA 1 or MA 2)"
TextCS2 ==
  CS1 \o << " ","a","n","d"," ","(" >> \o MA1 \o << " ","o","r"," " >> \o MA2 \o << ")" >>

\* "Prerequisite: ma1"
TextMA2 ==
  << "P","r","e","r","e","q","u","i","s","i","t","e",":"," ","m","a","1" >>

NodeIds == {CS1, CS2, CS3, MA1, MA2, HU1, SS1}

\* nodes.get(id): credits as the catalog's text, department, prerequisite text.
nodes ==
  [id \in NodeIds |->
     IF id = CS1 THEN [credits |-> << "3" >>, dept |-> "Computer Science",
                       prereqText |-> << >>]
     ELSE IF id = CS2 THEN [credits |-> << "3" >>, dept |-> "Computer Science",
                            prereqText |-> TextCS2]
     ELSE IF id = CS3 THEN [credits |-> << "3" >>, dept |-> "Computer Science",
                            prereqText |-> TextCS3]
     ELSE IF id = MA1 THEN [credits |-> << "4" >>, dept |-> "Mathematics",
                            prereqText |-> << >>]
     ELSE IF id = MA2 THEN [credits |-> << "4" >>, dept |-> "Mathematics",
                            prereqText |-> TextMA2]
     ELSE IF id = HU1 THEN [credits |-> << "3" >>, dept |-> "Humanities",
                            prereqText |-> << >>]
     ELSE [credits |-> << "3" >>, dept |-> "Social Sciences", prereqText |-> << >>]]

\* parsePrereqGroups(node && node.prereqText), per catalog course.
prereqGroupsOfNode ==
  [id \in NodeIds |-> parsePrereqGroups(nodes[id].prereqText)] @@ << >>

\* A slip: the prerequisite groups are looked up under the wrong course.
nodePrereqGroupsOfOther(courseId) ==
  IF courseId \in NodeIds THEN prereqGroupsOfNode[CS2] ELSE << >>

nodePrereqGroups(courseId) ==
  IF courseId \in NodeIds THEN prereqGroupsOfNode[courseId] ELSE << >>

\* codeToNodeId: canonical code -> node id.
codeToNodeId(canon) ==
  IF \E id \in NodeIds : normalizeCourseCode(id) = canon
    THEN CHOOSE id \in NodeIds : normalizeCourseCode(id) = canon
    ELSE NoCourse

SEMESTERS_DEFAULT ==
  << << "S","u","m","m","e","r"," ","0" >>,
     << "F","a","l","l"," ","1" >>,
     << "S","p","r","i","n","g"," ","1" >>,
     << "S","u","m","m","e","r"," ","1" >>,
     << "F","a","l","l"," ","2" >>,
     << "S","p","r","i","n","g"," ","2" >>,
     << "S","u","m","m","e","r"," ","2" >>,
     << "F","a","l","l"," ","3" >>,
     << "S","p","r","i","n","g"," ","3" >>,
     << "S","u","m","m","e","r"," ","3" >>,
     << "F","a","l","l"," ","4" >>,
     << "S","p","r","i","n","g"," ","4" >> >>

\* Entry slots a semester starts with.
BaseSlots == 8

Freshman == << "f","r","e","s","h","m","a","n" >>

Sophomore == << "s","o","p","h","o","m","o","r","e" >>

Junior == << "j","u","n","i","o","r" >>

Senior == << "s","e","n","i","o","r" >>

Fall == << "f","a","l","l" >>

Spring == << "s","p","r","i","n","g" >>

Summer == << "s","u","m","m","e","r" >>

\* The presets of presets.json once loaded (presetById).
PresetIds == {"cs", "me"}

\* The rows of each preset file: {course_code, year, semester}.
presetRows(id) ==
  IF id = "cs"
    THEN << [code |-> << "c","s","1" >>, year |-> << "F","r","e","s","h","m","a","n" >>,
             semester |-> << "F","a","l","l" >>],
            [code |-> CS2, year |-> << " ","f","r","e","s","h","m","a","n" >>,
             semester |-> << "S","p","r","i","n","g"," ","2","5" >>],
            [code |-> CS1, year |-> Sophomore, semester |-> Fall],
            [code |-> MA1, year |-> Senior, semester |-> << "S","u","m","m","e","r" >>],
            [code |-> XX9, year |-> Freshman, semester |-> Fall] >>
    ELSE << [code |-> MA1, year |-> Freshman, semester |-> Spring],
            [code |-> HU1, year |-> Freshman, semester |-> Spring] >>

(***************************************************************************)
(* Schedule model: state construction and loading                          *)
(***************************************************************************)
emptySlot(isExtra, addedByPreset) ==
  [courseId |-> NoCourse, isExtra |-> isExtra, source |-> NULL,
   presetId |-> NULL, addedByPreset |-> addedByPreset]

baseSemester == [slots |-> [j \in 1..BaseSlots |-> emptySlot(FALSE, FALSE)]]

buildInitialState ==
  [presetId |-> "", currentSemesterIndex |-> 0, showSummer |-> TRUE,
   semesters |-> [i \in 1..Len(SEMESTERS_DEFAULT) |-> baseSemester]]

Min2(a, b) == IF a <= b THEN a ELSE b

Max2(a, b) == IF a >= b THEN a ELSE b

\* A stored number: an integer, or a value that is not a finite number.
finiteNumber(n) == [finite |-> TRUE, n |-> n]

notFinite == [finite |-> FALSE, n |-> 0]

\* Number.isFinite(n) ? Math.floor(n) : lo, clamped to lo..hi.
clampInt(v, lo, hi) == Max2(lo, Min2(hi, IF v.finite THEN v.n ELSE lo))

\* What localStorage may hold: nothing (stored = FALSE: no item, or text that
\* does not parse to an object), or an object.  A stored slot is an
\* object (obj) with the fields below, or something else; a stored semester
\* is an object with a slots array (valid), or something else.
rawSlot(courseId, source, presetId, addedByPreset) ==
  [obj |-> TRUE, courseId |-> courseId, source |-> source,
   presetId |-> presetId, addedByPreset |-> addedByPreset]

rawNotAnObject ==
  [obj |-> FALSE, courseId |-> NoCourse, source |-> NULL,
   presetId |-> NULL, addedByPreset |-> FALSE]

rawSemester(slots) == [valid |-> TRUE, slots |-> slots]

rawInvalidSemester == [valid |-> FALSE, slots |-> << >>]

\* The loop over s.slots of normalizeLoadedState.
RECURSIVE copyLoadedSlots(_, _, _)
copyLoadedSlots(srcSlots, j, slots) ==
  IF j >= Len(srcSlots) THEN slots
  ELSE LET src == srcSlots[j + 1]
       IN  IF ~src.obj THEN copyLoadedSlots(srcSlots, j + 1, slots)
           ELSE LET courseId  == src.courseId
                    isExtra   == j >= 8
                    srcSource == IF src.source = "preset" THEN "preset"
                                 ELSE IF src.source = "manual" THEN "manual"
                                 ELSE NULL
                    source    == IF srcSource # NULL THEN srcSource
                                 ELSE IF courseId # NoCourse THEN "manual"
                                 ELSE NULL
                    presetId  == IF source = "preset" THEN src.presetId ELSE NULL
                    filled    == [courseId |-> courseId, isExtra |-> isExtra,
                                  source |-> source, presetId |-> presetId,
                                  addedByPreset |-> src.addedByPreset]
                IN  IF j < 8
                      THEN copyLoadedSlots(srcSlots, j + 1,
                             [slots EXCEPT ![j + 1] =
                                [filled EXCEPT !.isExtra = FALSE]])
                      ELSE copyLoadedSlots(srcSlots, j + 1, Append(slots, filled))

\* The migration of an 8-semester state (taken only if there are 11 default
\* semesters): an empty summer after the source semesters 1, 3 and 5.
RECURSIVE insertSummers(_, _)
insertSummers(rawSemesters, i) ==
  IF i >= 8 THEN << >>
  ELSE << rawSemesters[i + 1] >>
         \o (IF i \in {1, 3, 5} THEN << rawSemester(<< >>) >> ELSE << >>)
         \o insertSummers(rawSemesters, i + 1)

normalizeLoadedState(raw) ==
  IF ~raw.stored THEN buildInitialState
  ELSE LET sourceSemesters ==
             IF Len(raw.semesters) = 8 /\ Len(SEMESTERS_DEFAULT) = 11
               THEN insertSummers(raw.semesters, 0)
               ELSE raw.semesters
           base == buildInitialState
       IN  [presetId |-> raw.presetId,
            currentSemesterIndex |->
              clampInt(raw.currentSemesterIndex, 0, Len(SEMESTERS_DEFAULT) - 1),
            showSummer |-> raw.showSummer,
            semesters |->
              [i \in 1..Len(base.semesters) |->
                 IF i > Len(sourceSemesters) \/ ~sourceSemesters[i].valid
                   THEN base.semesters[i]
                   ELSE [slots |-> copyLoadedSlots(sourceSemesters[i].slots, 0,
                                                   baseSemester.slots)]]]

(***************************************************************************)
(* Prerequisite validator                                                  *)
(***************************************************************************)
filledSlot(slot) == slot.courseId # NoCourse

\* A slip: only the courses of the catalog enter the index.
semesterCodesOfCatalog(sem) ==
  { normalizeRequirementCode(sem.slots[j].courseId) :
      j \in { j \in 1..Len(sem.slots) :
                /\ filledSlot(sem.slots[j])
                /\ sem.slots[j].courseId \in NodeIds } } \ { << >> }

\* The canonical codes of the courses placed in one semester.
semesterCodes(sem) ==
  { normalizeRequirementCode(sem.slots[j].courseId) :
      j \in { j \in 1..Len(sem.slots) : filledSlot(sem.slots[j]) } } \ { << >> }

\* A slip: a later occurrence of a code overwrites the earlier one.
greatestSemesterOf(codes) ==
  [canon \in UNION { codes[i] : i \in DOMAIN codes } |->
     (CHOOSE i \in DOMAIN codes :
        /\ canon \in codes[i]
        /\ \A k \in (i + 1)..Len(codes) : canon \notin codes[k]) - 1] @@ << >>

\* The first loop of buildPrereqFailures: courseToSem maps each canonical
\* code placed in the schedule to the least semester index (0-based) holding
\* it; codes[i] are the codes of the semester at position i.
leastSemesterOf(codes) ==
  [canon \in UNION { codes[i] : i \in DOMAIN codes } |->
     (CHOOSE i \in DOMAIN codes :
        /\ canon \in codes[i]
        /\ \A k \in 1..(i - 1) : canon \notin codes[k]) - 1] @@ << >>

courseToSem(sems) ==
  leastSemesterOf([i \in 1..Len(sems) |-> semesterCodes(sems[i])] @@ << >>)

\* group.filter(code => prereqSem == null || prereqSem > i)
isMissing(toSem, code, i) ==
  \/ code \notin DOMAIN toSem
  \/ toSem[code] > i

missingOf(toSem, group, i) == SelectSeq(group, LAMBDA code : isMissing(toSem, code, i))

\* groupStatus: the missing codes of each group, in the order of the groups.
groupStatus(toSem, prereqGroups, i) ==
  [g \in 1..Len(prereqGroups) |-> missingOf(toSem, prereqGroups[g], i)] @@ << >>

\* The keys <<i, j>> (0-based semester and slot) of the slots, the code's
\* `${i}:${j}`.
slotKeys(sems) ==
  UNION { { <<i, j>> : j \in 0..(Len(sems[i + 1].slots) - 1) } :
          i \in 0..(Len(sems) - 1) }

\* The group status of every slot; a slot without a course or without
\* prerequisite groups (the two "continue") has none.
slotStatus(sems, toSem) ==
  [k \in slotKeys(sems) |->
     IF filledSlot(sems[k[1] + 1].slots[k[2] + 1])
       THEN groupStatus(toSem,
                        nodePrereqGroups(sems[k[1] + 1].slots[k[2] + 1].courseId),
                        k[1])
       ELSE << >>] @@ << >>

\* satisfied = groupStatus.some(g => g.missing.length === 0)
satisfied(status) == \E g \in 1..Len(status) : Len(status[g]) = 0

\* allMissing: the missing codes of all groups, in order of first appearance.
RECURSIVE allMissing(_, _)
allMissing(status, g) ==
  IF g > Len(status) THEN << >> ELSE status[g] \o allMissing(status, g + 1)

\* failures: key -> missing codes, for the slots with groups of which none is
\* satisfied.
failuresOf(status) ==
  [k \in { k \in DOMAIN status : Len(status[k]) > 0 /\ ~satisfied(status[k]) } |->
     dedupe(allMissing(status[k], 1))]

buildPrereqFailures(sems) == failuresOf(slotStatus(sems, courseToSem(sems)))

(***************************************************************************)
(* Paging: the semester shown                                              *)
(***************************************************************************)
\* /^Summer\s/i.test(label)
isSummerLabel(label) ==
  /\ Len(label) >= 7
  /\ toLowerCase(SubSeq(label, 1, 6)) = Summer
  /\ label[7] \in WhiteChars

semesterLabel(i) ==
  IF i >= 0 /\ i < Len(SEMESTERS_DEFAULT) THEN SEMESTERS_DEFAULT[i + 1] ELSE << >>

getVisibleSemesterIndices(sems, summer) ==
  SelectSeq([i \in 1..Len(sems) |-> i - 1],
            LAMBDA i : ~(~summer /\ isSummerLabel(semesterLabel(i))))

\* A slip in resolveVisibleSemesterIndex: the index is kept as it is.
resolveVisibleSemesterIndexKept(currentIdx, visibleIndices) == currentIdx

resolveVisibleSemesterIndex(currentIdx, visibleIndices) ==
  IF Len(visibleIndices) = 0 THEN 0
  ELSE IF currentIdx \in SeqToSet(visibleIndices) THEN currentIdx
  ELSE IF \E k \in 1..Len(visibleIndices) : visibleIndices[k] >= currentIdx
    THEN visibleIndices[CHOOSE k \in 1..Len(visibleIndices) :
                          /\ visibleIndices[k] >= currentIdx
                          /\ \A m \in 1..(k - 1) : visibleIndices[m] < currentIdx]
  ELSE visibleIndices[Len(visibleIndices)]

(***************************************************************************)
(* Schedule model: slot access and the preset helpers                      *)
(***************************************************************************)
\* state.semesters[semIdx] is an object.
semExists(sems, semIdx) == semIdx >= 0 /\ semIdx < Len(sems)

\* state.semesters[semIdx] && sem.slots[slotIdx]
slotExists(sems, semIdx, slotIdx) ==
  /\ semExists(sems, semIdx)
  /\ slotIdx >= 0
  /\ slotIdx < Len(sems[semIdx + 1].slots)

slotAt(sems, semIdx, slotIdx) == sems[semIdx + 1].slots[slotIdx + 1]

withSlot(sems, semIdx, slotIdx, slot) ==
  [sems EXCEPT ![semIdx + 1].slots[slotIdx + 1] = slot]

\* Array.prototype.splice(slotIdx, 1)
removeAt(seq, idx) ==
  [k \in 1..(Len(seq) - 1) |-> IF k <= idx THEN seq[k] ELSE seq[k + 1]]

\* The value getSlotData returns; found = FALSE stands for null.
noSlotData ==
  [found |-> FALSE, courseId |-> NoCourse, source |-> NULL,
   presetId |-> NULL, addedByPreset |-> FALSE]

getSlotData(sems, semIdx, slotIdx) ==
  IF ~slotExists(sems, semIdx, slotIdx) THEN noSlotData
  ELSE LET slot == slotAt(sems, semIdx, slotIdx)
       IN  [found |-> TRUE, courseId |-> slot.courseId, source |-> slot.source,
            presetId |-> slot.presetId,
            addedByPreset |-> slot.addedByPreset /\ slot.source = "preset"]

\* A slip: the source is written even when the data hold no course.
setSlotDataSourceAlways(sems, semIdx, slotIdx, data) ==
  IF ~slotExists(sems, semIdx, slotIdx) THEN sems
  ELSE LET isPreset == data.found /\ data.source = "preset"
       IN  withSlot(sems, semIdx, slotIdx,
             [slotAt(sems, semIdx, slotIdx) EXCEPT
                !.courseId = IF data.found THEN data.courseId ELSE NoCourse,
                !.source = IF data.found /\ data.source # NULL THEN data.source
                           ELSE "manual",
                !.presetId = IF isPreset /\ data.presetId # "" THEN data.presetId
                             ELSE NULL,
                !.addedByPreset = IF isPreset THEN data.addedByPreset ELSE FALSE])

setSlotData(sems, semIdx, slotIdx, data) ==
  IF ~slotExists(sems, semIdx, slotIdx) THEN sems
  ELSE LET hasCourse == data.found /\ data.courseId # NoCourse
           isPreset  == data.found /\ data.source = "preset"
       IN  withSlot(sems, semIdx, slotIdx,
             [slotAt(sems, semIdx, slotIdx) EXCEPT
                !.courseId = IF hasCourse THEN data.courseId ELSE NoCourse,
                !.source = IF hasCourse
                             THEN (IF data.source # NULL THEN data.source ELSE "manual")
                             ELSE NULL,
                !.presetId = IF isPreset /\ data.presetId # "" THEN data.presetId
                             ELSE NULL,
                !.addedByPreset = IF isPreset THEN data.addedByPreset ELSE FALSE])

clearSlot(sems, semIdx, slotIdx) == setSlotData(sems, semIdx, slotIdx, noSlotData)

\* A slip in the search: the last empty slot instead of the first.
lastEmptyIndex(slots) ==
  IF \E j \in 1..Len(slots) : ~filledSlot(slots[j])
    THEN (CHOOSE j \in 1..Len(slots) :
            /\ ~filledSlot(slots[j])
            /\ \A k \in (j + 1)..Len(slots) : filledSlot(slots[k])) - 1
    ELSE -1

\* sem.slots.findIndex(s => s && !s.courseId), 0-based, -1 when all are filled.
firstEmptyIndex(slots) ==
  IF \E j \in 1..Len(slots) : ~filledSlot(slots[j])
    THEN (CHOOSE j \in 1..Len(slots) :
            /\ ~filledSlot(slots[j])
            /\ \A k \in 1..(j - 1) : filledSlot(slots[k])) - 1
    ELSE -1

\* getAllSelectedCourseIds, as the set built from it.
getAllSelectedCourseIdSet(sems) ==
  UNION { { sems[i].slots[j].courseId :
              j \in { j \in 1..Len(sems[i].slots) : filledSlot(sems[i].slots[j]) } } :
          i \in 1..Len(sems) }

RECURSIVE trimLeft(_)
trimLeft(s) ==
  IF Len(s) > 0 /\ Head(s) \in WhiteChars THEN trimLeft(Tail(s)) ELSE s

RECURSIVE trimRight(_)
trimRight(s) ==
  IF Len(s) > 0 /\ s[Len(s)] \in WhiteChars
    THEN trimRight(SubSeq(s, 1, Len(s) - 1))
    ELSE s

trim(s) == trimRight(trimLeft(s))

startsWith(s, prefix) ==
  Len(s) >= Len(prefix) /\ SubSeq(s, 1, Len(prefix)) = prefix

\* yearMap[y], -1 when y is no key of it.
yearIndex(y) ==
  IF y = Freshman THEN 0
  ELSE IF y = Sophomore THEN 1
  ELSE IF y = Junior THEN 2
  ELSE IF y = Senior THEN 3
  ELSE -1

\* The term index of the lowered, trimmed semester text, -1 when none.
termIndex(s) ==
  IF startsWith(s, Fall) THEN 0
  ELSE IF startsWith(s, Spring) THEN 1
  ELSE IF startsWith(s, Summer) THEN 2
  ELSE -1

\* A slip: the index is counted from 0, without the leading summer.
semesterIndexOfFromZero(yIdx, sIdx) ==
  IF yIdx < 0 THEN -1
  ELSE IF sIdx < 0 THEN -1
  ELSE IF sIdx = 2 /\ yIdx >= 3 THEN -1
  ELSE IF yIdx * 3 + sIdx >= 0 /\ yIdx * 3 + sIdx < Len(SEMESTERS_DEFAULT)
    THEN yIdx * 3 + sIdx
  ELSE -1

\* The index from the year and term indexes; -1 stands for null.
semesterIndexOf(yIdx, sIdx) ==
  IF yIdx < 0 THEN -1
  ELSE IF sIdx < 0 THEN -1
  ELSE IF sIdx = 2 /\ yIdx >= 3 THEN -1
  ELSE IF 1 + yIdx * 3 + sIdx >= 0 /\ 1 + yIdx * 3 + sIdx < Len(SEMESTERS_DEFAULT)
    THEN 1 + yIdx * 3 + sIdx
  ELSE -1

\* The semester index of a preset row; -1 stands for null.
semesterIndexFromRow(year, semester) ==
  semesterIndexOf(yearIndex(toLowerCase(trim(year))),
                  termIndex(toLowerCase(trim(semester))))

RECURSIVE padToBase(_)
padToBase(slots) ==
  IF Len(slots) < 8 THEN padToBase(Append(slots, emptySlot(FALSE, FALSE))) ELSE slots

\* A slip: every supplemental slot is deleted, whoever added it.
clearPresetSelectionsOfAllExtras(sems) ==
  [i \in 1..Len(sems) |->
     LET kept    == SelectSeq(sems[i].slots, LAMBDA slot : ~slot.isExtra)
         cleared == [j \in 1..Len(kept) |->
                       IF kept[j].source = "preset"
                         THEN [kept[j] EXCEPT !.courseId = NoCourse, !.source = NULL,
                                              !.presetId = NULL, !.addedByPreset = FALSE]
                         ELSE kept[j]]
     IN  [slots |-> padToBase(cleared)]]

clearPresetSelections(sems) ==
  [i \in 1..Len(sems) |->
     LET kept    == SelectSeq(sems[i].slots,
                              LAMBDA slot : ~(slot.isExtra /\ slot.addedByPreset))
         cleared == [j \in 1..Len(kept) |->
                       IF kept[j].source = "preset"
                         THEN [kept[j] EXCEPT !.courseId = NoCourse, !.source = NULL,
                                              !.presetId = NULL, !.addedByPreset = FALSE]
                         ELSE kept[j]]
     IN  [slots |-> padToBase(cleared)]]

assignCourseToSemester(sems, semIdx, nodeId, newPresetId) ==
  IF ~semExists(sems, semIdx) THEN sems
  ELSE LET slots    == sems[semIdx + 1].slots
           found    == firstEmptyIndex(slots)
           withRoom == IF found = -1 THEN Append(slots, emptySlot(TRUE, TRUE)) ELSE slots
           at       == IF found = -1 THEN Len(withRoom) ELSE found + 1
           slot     == withRoom[at]
       IN  [sems EXCEPT ![semIdx + 1].slots =
              [withRoom EXCEPT ![at] =
                 [slot EXCEPT !.courseId = nodeId, !.source = "preset",
                              !.presetId = newPresetId,
                              !.addedByPreset = IF slot.isExtra THEN TRUE
                                                ELSE slot.addedByPreset]]]

\* A slip: a row is assigned whether or not its course is planned already.
RECURSIVE assignPresetRowsUnchecked(_, _, _, _, _)
assignPresetRowsUnchecked(sems, rows, r, selected, newPresetId) ==
  IF r > Len(rows) THEN sems
  ELSE IF \/ semesterIndexFromRow(rows[r].year, rows[r].semester) = -1
          \/ codeToNodeId(normalizeCourseCode(rows[r].code)) = NoCourse
    THEN assignPresetRowsUnchecked(sems, rows, r + 1, selected, newPresetId)
  ELSE assignPresetRowsUnchecked(
         assignCourseToSemester(sems,
                                semesterIndexFromRow(rows[r].year, rows[r].semester),
                                codeToNodeId(normalizeCourseCode(rows[r].code)),
                                newPresetId),
         rows, r + 1, selected, newPresetId)

\* The loop over the rows of a preset file in applyPreset.
RECURSIVE assignPresetRows(_, _, _, _, _)
assignPresetRows(sems, rows, r, selected, newPresetId) ==
  IF r > Len(rows) THEN sems
  ELSE LET semIdx == semesterIndexFromRow(rows[r].year, rows[r].semester)
           nodeId == codeToNodeId(normalizeCourseCode(rows[r].code))
       IN  IF semIdx = -1 \/ nodeId = NoCourse \/ nodeId \in selected
             THEN assignPresetRows(sems, rows, r + 1, selected, newPresetId)
             ELSE assignPresetRows(
                    assignCourseToSemester(sems, semIdx, nodeId, newPresetId),
                    rows, r + 1, selected \cup {nodeId}, newPresetId)

(***************************************************************************)
(* Schedule model: the result of each mutator on state.semesters           *)
(***************************************************************************)
\* A slip: the course is written, the slot's origin is left as it was.
selectCourseSlotsKeepingOrigin(sems, semIdx, slotIdx, nodeId) ==
  withSlot(sems, semIdx, slotIdx,
           [slotAt(sems, semIdx, slotIdx) EXCEPT !.courseId = nodeId])

selectCourseSlots(sems, semIdx, slotIdx, nodeId) ==
  withSlot(sems, semIdx, slotIdx,
           [slotAt(sems, semIdx, slotIdx) EXCEPT
              !.courseId = nodeId, !.source = "manual",
              !.presetId = NULL, !.addedByPreset = FALSE])

\* A slip: clearing a supplemental slot removes it, as a move out of it does.
clearCourseSlotsReleasing(sems, semIdx, slotIdx) ==
  IF slotAt(sems, semIdx, slotIdx).isExtra
    THEN [sems EXCEPT ![semIdx + 1].slots = removeAt(@, slotIdx)]
    ELSE withSlot(sems, semIdx, slotIdx,
                  [slotAt(sems, semIdx, slotIdx) EXCEPT
                     !.courseId = NoCourse, !.source = NULL,
                     !.presetId = NULL, !.addedByPreset = FALSE])

clearCourseSlots(sems, semIdx, slotIdx) ==
  withSlot(sems, semIdx, slotIdx,
           [slotAt(sems, semIdx, slotIdx) EXCEPT
              !.courseId = NoCourse, !.source = NULL,
              !.presetId = NULL, !.addedByPreset = FALSE])

\* A slip in addSlot: the pushed slot is not marked supplemental.
addSlotSlotsUnmarked(sems, semIdx) ==
  [sems EXCEPT ![semIdx + 1].slots = Append(@, emptySlot(FALSE, FALSE))]

addSlotSlots(sems, semIdx) ==
  [sems EXCEPT ![semIdx + 1].slots = Append(@, emptySlot(TRUE, FALSE))]

\* A slip in the guard: base slots pass it as well.
removableSlotAny(sems, semIdx, slotIdx) == slotExists(sems, semIdx, slotIdx)

\* The guard of removeExtraSlot: the slot exists and is an extra one.
removableSlot(sems, semIdx, slotIdx) ==
  /\ slotExists(sems, semIdx, slotIdx)
  /\ slotAt(sems, semIdx, slotIdx).isExtra

removeExtraSlotSlots(sems, semIdx, slotIdx) ==
  [sems EXCEPT ![semIdx + 1].slots = removeAt(@, slotIdx)]

\* toSlotIdx = null
NoIndex == -1

\* moveCourse, the target: the slot index written to and the semesters after
\* the push of a supplemental slot onto a target semester with no empty slot.
moveTarget(sems, toSemIdx, toSlotIdx) ==
  IF toSlotIdx # NoIndex
    THEN [semesters |-> sems, targetSlotIdx |-> toSlotIdx, appended |-> FALSE]
  ELSE IF firstEmptyIndex(sems[toSemIdx + 1].slots) # -1
    THEN [semesters |-> sems,
          targetSlotIdx |-> firstEmptyIndex(sems[toSemIdx + 1].slots),
          appended |-> FALSE]
  ELSE [semesters |-> [sems EXCEPT ![toSemIdx + 1].slots =
                         Append(@, emptySlot(TRUE, FALSE))],
        targetSlotIdx |-> Len(sems[toSemIdx + 1].slots),
        appended |-> TRUE]

\* A slip in the exchange: the source is not given the target's course.
moveSwapOneWay(sems, fromSemIdx, fromSlotIdx, toSemIdx, targetSlotIdx) ==
  setSlotData(sems, toSemIdx, targetSlotIdx,
              getSlotData(sems, fromSemIdx, fromSlotIdx))

\* moveCourse, the target has a course: source and target are exchanged.
moveSwap(sems, fromSemIdx, fromSlotIdx, toSemIdx, targetSlotIdx) ==
  setSlotData(setSlotData(sems, toSemIdx, targetSlotIdx,
                          getSlotData(sems, fromSemIdx, fromSlotIdx)),
              fromSemIdx, fromSlotIdx,
              getSlotData(sems, toSemIdx, targetSlotIdx))

\* A slip after the write: the source keeps its course.
releaseSourceKept(sems, fromSemIdx, fromSlotIdx) == sems

\* moveCourse, after the target was written: a supplemental source slot is
\* spliced out, a base one cleared.
releaseSource(sems, fromSemIdx, fromSlotIdx) ==
  IF slotAt(sems, fromSemIdx, fromSlotIdx).isExtra
    THEN [sems EXCEPT ![fromSemIdx + 1].slots = removeAt(@, fromSlotIdx)]
    ELSE clearSlot(sems, fromSemIdx, fromSlotIdx)

\* moveCourse, the target has no course (or does not exist).
moveToEmpty(sems, fromSemIdx, fromSlotIdx, toSemIdx, targetSlotIdx) ==
  releaseSource(setSlotData(sems, toSemIdx, targetSlotIdx,
                            getSlotData(sems, fromSemIdx, fromSlotIdx)),
                fromSemIdx, fromSlotIdx)

\* moveCourse from the point where the target t is known.
moveCourseTo(fromSemIdx, fromSlotIdx, toSemIdx, t) ==
  IF getSlotData(t.semesters, toSemIdx, t.targetSlotIdx).courseId # NoCourse
    THEN [branch |-> "swap",
          semesters |-> moveSwap(t.semesters, fromSemIdx, fromSlotIdx,
                                 toSemIdx, t.targetSlotIdx)]
    ELSE [branch |-> IF ~slotExists(t.semesters, toSemIdx, t.targetSlotIdx)
                       THEN "targetMissing"
                     ELSE IF t.appended THEN "toAppended"
                     ELSE "toEmpty",
          semesters |-> moveToEmpty(t.semesters, fromSemIdx, fromSlotIdx,
                                    toSemIdx, t.targetSlotIdx)]

\* moveCourse: the branch taken and the resulting semesters.
moveCourseResult(sems, fromSemIdx, fromSlotIdx, toSemIdx, toSlotIdx) ==
  IF getSlotData(sems, fromSemIdx, fromSlotIdx).courseId = NoCourse
    THEN [branch |-> "noSource", semesters |-> sems]
  ELSE IF fromSemIdx = toSemIdx /\ toSlotIdx # NoIndex /\ fromSlotIdx = toSlotIdx
    THEN [branch |-> "samePlace", semesters |-> sems]
  ELSE IF toSlotIdx = NoIndex /\ ~semExists(sems, toSemIdx)
    THEN [branch |-> "noTargetSemester", semesters |-> sems]
  ELSE moveCourseTo(fromSemIdx, fromSlotIdx, toSemIdx,
                    moveTarget(sems, toSemIdx, toSlotIdx))

\* A slip: the summers are left out of the count whether shown or not.
baseVisibleCountNoSummer(summer) ==
  Len(SelectSeq(SEMESTERS_DEFAULT, LAMBDA label : ~isSummerLabel(label)))

\* removeSemester: visible.length <= baseVisible makes it return.
baseVisibleCount(summer) ==
  Len(SelectSeq(SEMESTERS_DEFAULT, LAMBDA label : isSummerLabel(label) => summer))

canRemoveSemester(sems, summer) ==
  Len(getVisibleSemesterIndices(sems, summer)) > baseVisibleCount(summer)

\* render(): the validity map and the semester shown.
renderPrereqFailures(sems) == buildPrereqFailures(sems)

renderSemesterIndex(sems, summer, currentIdx) ==
  resolveVisibleSemesterIndex(currentIdx, getVisibleSemesterIndices(sems, summer))

(***************************************************************************)
(* The state machine                                                       *)
(***************************************************************************)
VARIABLES
  semesters,             \* state.semesters
  presetId,              \* state.presetId
  currentSemesterIndex,  \* state.currentSemesterIndex
  showSummer,            \* state.showSummer
  prereqFailures,        \* the validity map render() stores
  presetLoadToken,       \* presetLoadToken
  presetFetches,         \* preset file requests in flight: [token, id]
  last,                  \* history: the operation that led here and its branch
  pureIn,                \* input of the function a one-function specification applies
  pureOut                \* its result

vars ==
  << semesters, presetId, currentSemesterIndex, showSummer, prereqFailures,
     presetLoadToken, presetFetches, last, pureIn, pureOut >>

\* Persisted states the builder may start from.
rawEmptySlot == rawSlot(NoCourse, NULL, NULL, FALSE)

rawManual(courseId) == rawSlot(courseId, "manual", NULL, FALSE)

rawEmptySemester == rawSemester([j \in 1..8 |-> rawEmptySlot])

\* Nothing stored: the first visit.
rawNothing ==
  [stored |-> FALSE, presetId |-> "", currentSemesterIndex |-> notFinite,
   showSummer |-> TRUE, semesters |-> << >>]

\* A plan saved earlier: one semester holds CS 1, the next is full (MA 1 and
\* humanities) but for its first slot.
rawSavedPlan ==
  [stored |-> TRUE, presetId |-> "", currentSemesterIndex |-> finiteNumber(3),
   showSummer |-> TRUE,
   semesters |->
     [i \in 1..12 |->
        IF i = 2 THEN rawSemester(<< rawManual(CS1) >> \o [j \in 1..7 |-> rawEmptySlot])
        ELSE IF i = 3
          THEN rawSemester(<< rawEmptySlot, rawManual(MA1) >>
                             \o [j \in 1..6 |-> rawManual(HU1)])
        ELSE rawEmptySemester]]

\* A damaged or older item: a preset id with preset-filled slots, summers
\* hidden, an index out of range, a semester that is no object, a slots array
\* that is short and holds a non-object, a full semester with a ninth slot,
\* a thirteenth semester.
rawOddState ==
  [stored |-> TRUE, presetId |-> "cs", currentSemesterIndex |-> finiteNumber(99),
   showSummer |-> FALSE,
   semesters |->
     [i \in 1..13 |->
        IF i = 1 THEN rawInvalidSemester
        ELSE IF i = 2
          THEN rawSemester(<< rawNotAnObject,
                              rawSlot(CS1, "preset", "cs", FALSE),
                              rawSlot(MA1, "bogus", "cs", TRUE) >>)
        ELSE IF i = 3
          THEN rawSemester(<< rawSlot(CS2, "preset", "cs", FALSE) >>
                             \o [j \in 1..7 |-> rawManual(HU1)]
                             \o << rawNotAnObject, rawSlot(MA1, NULL, NULL, FALSE) >>)
        ELSE rawEmptySemester]]

RawStates == {rawNothing, rawSavedPlan, rawOddState}

\* The arguments the operations are called with (JavaScript indexes).
\* Semester 12 exists only once a semester has been added; slot 8 only when
\* the semester has a supplemental slot.
SemArgs == {2, 12}

SlotArgs == {0, 8}

CourseArgs == {CS1, CS2}

PresetArgs == {"", "cs", "me", "zz"}

FetchOutcomes == {"rows", "notArray", "failed"}

\* The bound on supplemental slots.
withinSlotBound(sems) ==
  \A i \in 1..Len(sems) : Len(sems[i].slots) <= BaseSlots + MaxExtraSlots

\* A drop on a semester column is only tried when the slot it fills is one
\* the other operations address, or when the semester has no empty slot.
addressableDrop(sems, toSemIdx) ==
  semExists(sems, toSemIdx) =>
    \/ \A j \in 1..Len(sems[toSemIdx + 1].slots) :
         filledSlot(sems[toSemIdx + 1].slots[j])
    \/ \E j \in SlotArgs :
         /\ j < Len(sems[toSemIdx + 1].slots)
         /\ ~filledSlot(sems[toSemIdx + 1].slots[j + 1])
         /\ \A k \in 1..j : filledSlot(sems[toSemIdx + 1].slots[k])

Init ==
  \E raw \in RawStates :
    LET state == normalizeLoadedState(raw)
    IN  /\ semesters = state.semesters
        /\ presetId = state.presetId
        /\ showSummer = state.showSummer
        /\ prereqFailures = renderPrereqFailures(state.semesters)
        /\ currentSemesterIndex =
             renderSemesterIndex(state.semesters, state.showSummer,
                                 state.currentSemesterIndex)
        /\ presetLoadToken = 0
        /\ presetFetches = {}
        /\ last = [op |-> "init", branch |-> "done"]
        /\ pureIn = NULL
        /\ pureOut = NULL

\* An early return: nothing is written, nothing is rendered.
Returned(op, branch) ==
  /\ last' = [op |-> op, branch |-> branch]
  /\ UNCHANGED << semesters, presetId, currentSemesterIndex, showSummer,
                  prereqFailures, presetLoadToken, presetFetches, pureIn, pureOut >>

\* A slip in a handler: the state is saved but render() is not called.
RenderedStale(sems) ==
  /\ semesters' = sems
  /\ prereqFailures' = prereqFailures
  /\ currentSemesterIndex' = currentSemesterIndex

\* saveState(); render() after the semesters became sems.
Rendered(sems) ==
  /\ semesters' = sems
  /\ prereqFailures' = renderPrereqFailures(sems)
  /\ currentSemesterIndex' = renderSemesterIndex(sems, showSummer, currentSemesterIndex)

SelectCourse(semIdx, slotIdx, nodeId) ==
  IF ~slotExists(semesters, semIdx, slotIdx)
    THEN Returned("selectCourse", "return")
    ELSE /\ Rendered(selectCourseSlots(semesters, semIdx, slotIdx, nodeId))
         /\ last' = [op |-> "selectCourse", branch |-> "done"]
         /\ UNCHANGED << presetId, showSummer, presetLoadToken, presetFetches,
                         pureIn, pureOut >>

ClearCourse(semIdx, slotIdx) ==
  IF ~slotExists(semesters, semIdx, slotIdx)
    THEN Returned("clearCourse", "return")
    ELSE /\ Rendered(clearCourseSlots(semesters, semIdx, slotIdx))
         /\ last' = [op |-> "clearCourse", branch |-> "done"]
         /\ UNCHANGED << presetId, showSummer, presetLoadToken, presetFetches,
                         pureIn, pureOut >>

AddSlot(semIdx) ==
  IF ~semExists(semesters, semIdx)
    THEN Returned("addSlot", "return")
    ELSE /\ Len(semesters[semIdx + 1].slots) < BaseSlots + MaxExtraSlots
         /\ Rendered(addSlotSlots(semesters, semIdx))
         /\ last' = [op |-> "addSlot", branch |-> "done"]
         /\ UNCHANGED << presetId, showSummer, presetLoadToken, presetFetches,
                         pureIn, pureOut >>

RemoveExtraSlot(semIdx, slotIdx) ==
  IF ~removableSlot(semesters, semIdx, slotIdx)
    THEN Returned("removeExtraSlot", "return")
    ELSE /\ Rendered(removeExtraSlotSlots(semesters, semIdx, slotIdx))
         /\ last' = [op |-> "removeExtraSlot",
                     branch |-> IF filledSlot(slotAt(semesters, semIdx, slotIdx))
                                  THEN "removedFilled" ELSE "removedEmpty"]
         /\ UNCHANGED << presetId, showSummer, presetLoadToken, presetFetches,
                         pureIn, pureOut >>

MoveCourse(fromSemIdx, fromSlotIdx, toSemIdx, toSlotIdx) ==
  LET r == moveCourseResult(semesters, fromSemIdx, fromSlotIdx, toSemIdx, toSlotIdx)
  IN  /\ toSlotIdx = NoIndex => addressableDrop(semesters, toSemIdx)
      /\ IF r.branch \in {"noSource", "samePlace", "noTargetSemester"}
           THEN Returned("moveCourse", r.branch)
           ELSE /\ withinSlotBound(r.semesters)
                /\ Rendered(r.semesters)
                /\ last' = [op |-> "moveCourse", branch |-> r.branch]
                /\ UNCHANGED << presetId, showSummer, presetLoadToken,
                                presetFetches, pureIn, pureOut >>

\* applyPreset up to its await: clear, store the id, render, start the load.
ApplyPreset(newPresetId) ==
  IF newPresetId = presetId
    THEN Returned("applyPreset", "same")
    ELSE LET starts == newPresetId # "" /\ newPresetId \in PresetIds
         IN  /\ starts => presetLoadToken < MaxPresetLoads
             /\ Rendered(clearPresetSelections(semesters))
             /\ presetId' = newPresetId
             /\ presetLoadToken' = IF starts THEN presetLoadToken + 1
                                   ELSE presetLoadToken
             /\ presetFetches' =
                  IF starts
                    THEN presetFetches
                           \cup {[token |-> presetLoadToken + 1, id |-> newPresetId]}
                    ELSE presetFetches
             /\ last' = [op |-> "applyPreset",
                         branch |-> IF newPresetId = "" THEN "empty"
                                    ELSE IF starts THEN "loading" ELSE "unknown"]
             /\ UNCHANGED << showSummer, pureIn, pureOut >>

\* applyPreset after its await: the response of one request arrives.
PresetFetchDone(req, outcome) ==
  /\ req \in presetFetches
  /\ presetFetches' = presetFetches \ {req}
  /\ UNCHANGED << showSummer, presetLoadToken, pureIn, pureOut >>
  /\ IF outcome = "failed" \/ (outcome = "notArray" /\ req.token = presetLoadToken)
       THEN /\ presetId' = ""
            /\ Rendered(semesters)
            /\ last' = [op |-> "presetFetch", branch |-> "catch"]
     ELSE IF req.token # presetLoadToken
       THEN /\ last' = [op |-> "presetFetch", branch |-> "superseded"]
            /\ UNCHANGED << semesters, presetId, currentSemesterIndex, prereqFailures >>
     ELSE LET sems == assignPresetRows(semesters, presetRows(req.id), 1,
                                       getAllSelectedCourseIdSet(semesters), req.id)
          IN  /\ withinSlotBound(sems)
              /\ Rendered(sems)
              /\ last' = [op |-> "presetFetch", branch |-> "rows"]
              /\ UNCHANGED presetId

AddSemester ==
  /\ Len(semesters) < Len(SEMESTERS_DEFAULT) + MaxAddedSemesters
  /\ Rendered(Append(semesters, baseSemester))
  /\ last' = [op |-> "addSemester", branch |-> "done"]
  /\ UNCHANGED << presetId, showSummer, presetLoadToken, presetFetches, pureIn, pureOut >>

RemoveSemester ==
  IF ~canRemoveSemester(semesters, showSummer)
    THEN Returned("removeSemester", "return")
    ELSE LET sems == SubSeq(semesters, 1, Len(semesters) - 1)
             idx  == IF currentSemesterIndex >= Len(sems) THEN Len(sems) - 1
                     ELSE currentSemesterIndex
         IN  /\ semesters' = sems
             /\ prereqFailures' = renderPrereqFailures(sems)
             /\ currentSemesterIndex' = renderSemesterIndex(sems, showSummer, idx)
             /\ last' = [op |-> "removeSemester", branch |-> "done"]
             /\ UNCHANGED << presetId, showSummer, presetLoadToken, presetFetches,
                             pureIn, pureOut >>

\* The schedule mutators, with the indexes and courses they are called with.
Mutate(semArgs, slotArgs, courseArgs) ==
  \/ \E semIdx \in semArgs, slotIdx \in slotArgs, nodeId \in courseArgs :
       SelectCourse(semIdx, slotIdx, nodeId)
  \/ \E semIdx \in semArgs, slotIdx \in slotArgs : ClearCourse(semIdx, slotIdx)
  \/ \E semIdx \in semArgs : AddSlot(semIdx)
  \/ \E semIdx \in semArgs, slotIdx \in slotArgs : RemoveExtraSlot(semIdx, slotIdx)
  \/ \E fromSemIdx \in semArgs, fromSlotIdx \in slotArgs,
        toSemIdx \in semArgs, toSlotIdx \in slotArgs \cup {NoIndex} :
       MoveCourse(fromSemIdx, fromSlotIdx, toSemIdx, toSlotIdx)
  \/ AddSemester
  \/ RemoveSemester

Next ==
  \/ Mutate({2}, {0, 8}, {CS2})
  \/ \E newPresetId \in PresetArgs : ApplyPreset(newPresetId)
  \/ \E token \in 1..MaxPresetLoads, id \in PresetIds, outcome \in FetchOutcomes :
       PresetFetchDone([token |-> token, id |-> id], outcome)

Spec == Init /\ [][Next]_vars

NextSchedule == Mutate(SemArgs, SlotArgs, CourseArgs)

SpecSchedule == Init /\ [][NextSchedule]_vars

\* The preset selector alone, with preset files that load and hold rows: the
\* preset id then changes in applyPreset calls only.
NextPresets ==
  \/ \E newPresetId \in PresetArgs : ApplyPreset(newPresetId)
  \/ \E token \in 1..MaxPresetLoads, id \in PresetIds :
       PresetFetchDone([token |-> token, id |-> id], "rows")
  \/ \E slotIdx \in SlotArgs : ClearCourse(2, slotIdx)

SpecPresets == Init /\ [][NextPresets]_vars

\* visible.indexOf(idx): the position from 0, -1 when absent.
visibleIndexOf(visibleIndices, idx) ==
  IF \E k \in 1..Len(visibleIndices) : visibleIndices[k] = idx
    THEN (CHOOSE k \in 1..Len(visibleIndices) : visibleIndices[k] = idx) - 1
    ELSE -1

\* Math.max(0, visible.indexOf(state.currentSemesterIndex)) of the page buttons.
currentVisibleIdx ==
  Max2(0, visibleIndexOf(getVisibleSemesterIndices(semesters, showSummer),
                         currentSemesterIndex))

\* visible[clampInt(nextIdx, 0, visible.length - 1)]
targetSemesterIndex(sems, summer, nextIdx) ==
  getVisibleSemesterIndices(sems, summer)[
    clampInt(finiteNumber(nextIdx), 0,
             Len(getVisibleSemesterIndices(sems, summer)) - 1) + 1]

SetSemesterIndex(nextIdx) ==
  IF Len(getVisibleSemesterIndices(semesters, showSummer)) = 0
    THEN Returned("setSemesterIndex", "noneVisible")
  ELSE IF targetSemesterIndex(semesters, showSummer, nextIdx) = currentSemesterIndex
    THEN Returned("setSemesterIndex", "same")
  ELSE /\ semesters' = semesters
       /\ prereqFailures' = renderPrereqFailures(semesters)
       /\ currentSemesterIndex' =
            renderSemesterIndex(semesters, showSummer,
                                targetSemesterIndex(semesters, showSummer, nextIdx))
       /\ last' = [op |-> "setSemesterIndex", branch |-> "done"]
       /\ UNCHANGED << presetId, showSummer, presetLoadToken, presetFetches,
                       pureIn, pureOut >>

\* The page buttons.
PagePrev == SetSemesterIndex(currentVisibleIdx - 1)

PageNext == SetSemesterIndex(currentVisibleIdx + 1)

\* The change handler of the summer checkbox.
ToggleSummer(checked) ==
  /\ showSummer' = checked
  /\ semesters' = semesters
  /\ prereqFailures' = renderPrereqFailures(semesters)
  /\ currentSemesterIndex' = renderSemesterIndex(semesters, checked, currentSemesterIndex)
  /\ last' = [op |-> "showSummer", branch |-> "done"]
  /\ UNCHANGED << presetId, presetLoadToken, presetFetches, pureIn, pureOut >>

\* The semester controls alone: adding, removing, paging, showing summers.
NextSemesters ==
  \/ AddSemester
  \/ RemoveSemester
  \/ PagePrev
  \/ PageNext
  \/ \E checked \in BOOLEAN : ToggleSummer(checked)

SpecSemesters == Init /\ [][NextSemesters]_vars

(***************************************************************************)
(* Properties of the schedule model and the validator                      *)
(***************************************************************************)
courseAt(sems, semIdx, slotIdx) == slotAt(sems, semIdx, slotIdx).courseId

\* How many slots of the schedule hold the course c.
courseCount(sems, c) ==
  Cardinality({ k \in slotKeys(sems) : courseAt(sems, k[1], k[2]) = c })

slotCounts(sems) == [i \in 1..Len(sems) |-> Len(sems[i].slots)]

\* after is before without the slot slotIdx of the semester semIdx.
slotRemoved(before, after, semIdx, slotIdx) ==
  /\ Len(after) = Len(before)
  /\ \A i \in 1..Len(before) : i # semIdx + 1 => after[i] = before[i]
  /\ Len(after[semIdx + 1].slots) = Len(before[semIdx + 1].slots) - 1
  /\ \A j \in 1..Len(after[semIdx + 1].slots) :
       after[semIdx + 1].slots[j] =
         IF j <= slotIdx THEN before[semIdx + 1].slots[j]
         ELSE before[semIdx + 1].slots[j + 1]

emptyIndexes(slots) == { j \in 0..(Len(slots) - 1) : ~filledSlot(slots[j + 1]) }

lowestEmpty(slots) ==
  CHOOSE j \in emptyIndexes(slots) : \A k \in emptyIndexes(slots) : j <= k

\* The index a slot of the semester toSemIdx has after the move, when the
\* source slot was spliced out of the same semester below it.
indexAfterMove(sems, fromSemIdx, fromSlotIdx, toSemIdx, j) ==
  IF /\ fromSemIdx = toSemIdx
     /\ slotAt(sems, fromSemIdx, fromSlotIdx).isExtra
     /\ fromSlotIdx < j
    THEN j - 1
    ELSE j

occupied(sems, semIdx, slotIdx) ==
  slotExists(sems, semIdx, slotIdx) /\ filledSlot(slotAt(sems, semIdx, slotIdx))

\* C1: a filled slot in semester i that buildPrereqFailures does not report
\* has a clause all of whose codes are first placed in a semester strictly
\* before i; a prerequisite placed only in semester i itself does not count.
C1_ValidOnlyIfStrictlyEarlier ==
  \A k \in slotKeys(semesters) :
    ( /\ filledSlot(slotAt(semesters, k[1], k[2]))
      /\ Len(nodePrereqGroups(courseAt(semesters, k[1], k[2]))) > 0
      /\ k \notin DOMAIN buildPrereqFailures(semesters) )
    => \E g \in 1..Len(nodePrereqGroups(courseAt(semesters, k[1], k[2]))) :
         \A code \in SeqToSet(nodePrereqGroups(courseAt(semesters, k[1], k[2]))[g]) :
           /\ code \in DOMAIN courseToSem(semesters)
           /\ courseToSem(semesters)[code] < k[1]

C4_SwapExchanges ==
  [][\A fromSemIdx \in SemArgs, fromSlotIdx \in SlotArgs,
        toSemIdx \in SemArgs, toSlotIdx \in SlotArgs :
       ( /\ last'.op = "moveCourse"
         /\ occupied(semesters, fromSemIdx, fromSlotIdx)
         /\ occupied(semesters, toSemIdx, toSlotIdx)
         /\ <<fromSemIdx, fromSlotIdx>> # <<toSemIdx, toSlotIdx>>
         /\ MoveCourse(fromSemIdx, fromSlotIdx, toSemIdx, toSlotIdx) )
       => /\ slotCounts(semesters') = slotCounts(semesters)
          /\ courseAt(semesters', toSemIdx, toSlotIdx)
               = courseAt(semesters, fromSemIdx, fromSlotIdx)
          /\ courseAt(semesters', fromSemIdx, fromSlotIdx)
               = courseAt(semesters, toSemIdx, toSlotIdx)
          /\ \A c \in getAllSelectedCourseIdSet(semesters)
                        \cup getAllSelectedCourseIdSet(semesters') :
               courseCount(semesters', c) = courseCount(semesters, c)]_vars

\* Two courses were exchanged.
C4_Witness == last.op = "moveCourse" /\ last.branch = "swap"

\* C5: a mutator called with a semester or slot index that does not exist
\* (moveCourse: also an explicit target that does not exist) leaves the
\* semesters unchanged.
C5_OutOfRangeChangesNothing ==
  [][/\ \A semIdx \in SemArgs, slotIdx \in SlotArgs, nodeId \in CourseArgs :
          ( /\ last'.op = "selectCourse"
            /\ ~slotExists(semesters, semIdx, slotIdx)
            /\ SelectCourse(semIdx, slotIdx, nodeId) )
          => semesters' = semesters
     /\ \A semIdx \in SemArgs, slotIdx \in SlotArgs :
          ( /\ last'.op = "clearCourse"
            /\ ~slotExists(semesters, semIdx, slotIdx)
            /\ ClearCourse(semIdx, slotIdx) )
          => semesters' = semesters
     /\ \A semIdx \in SemArgs :
          ( /\ last'.op = "addSlot"
            /\ ~semExists(semesters, semIdx)
            /\ AddSlot(semIdx) )
          => semesters' = semesters
     /\ \A semIdx \in SemArgs, slotIdx \in SlotArgs :
          ( /\ last'.op = "removeExtraSlot"
            /\ ~slotExists(semesters, semIdx, slotIdx)
            /\ RemoveExtraSlot(semIdx, slotIdx) )
          => semesters' = semesters
     /\ \A fromSemIdx \in SemArgs, fromSlotIdx \in SlotArgs,
           toSemIdx \in SemArgs, toSlotIdx \in SlotArgs \cup {NoIndex} :
          ( /\ last'.op = "moveCourse"
            /\ \/ ~slotExists(semesters, fromSemIdx, fromSlotIdx)
               \/ ~semExists(semesters, toSemIdx)
               \/ toSlotIdx # NoIndex /\ ~slotExists(semesters, toSemIdx, toSlotIdx)
            /\ MoveCourse(fromSemIdx, fromSlotIdx, toSemIdx, toSlotIdx) )
          => semesters' = semesters]_vars

\* C7: every semester has its 8 base slots at the indexes 0..7, and the slots
\* at index 8 and above, and only they, are supplemental.
C7_BaseSlotsFirst ==
  \A i \in 1..Len(semesters) :
    /\ Len(semesters[i].slots) >= BaseSlots
    /\ \A j \in 1..Len(semesters[i].slots) :
         semesters[i].slots[j].isExtra <=> j > BaseSlots

\* A preset was written into a schedule that has a supplemental slot.
C7_Witness ==
  /\ last.op = "presetFetch"
  /\ last.branch = "rows"
  /\ \E i \in 1..Len(semesters) : Len(semesters[i].slots) > BaseSlots

\* C8: moveCourse into an existing empty slot puts the course there and
\* empties the source: a base source slot stays, without a course, a
\* supplemental source slot is removed; no more slots hold the course than
\* before.
C8_MoveIntoEmptySlot ==
  [][\A fromSemIdx \in SemArgs, fromSlotIdx \in SlotArgs,
        toSemIdx \in SemArgs, toSlotIdx \in SlotArgs :
       ( /\ last'.op = "moveCourse"
         /\ occupied(semesters, fromSemIdx, fromSlotIdx)
         /\ slotExists(semesters, toSemIdx, toSlotIdx)
         /\ ~filledSlot(slotAt(semesters, toSemIdx, toSlotIdx))
         /\ MoveCourse(fromSemIdx, fromSlotIdx, toSemIdx, toSlotIdx) )
       => /\ courseAt(semesters', toSemIdx,
                      indexAfterMove(semesters, fromSemIdx, fromSlotIdx,
                                     toSemIdx, toSlotIdx))
               = courseAt(semesters, fromSemIdx, fromSlotIdx)
          /\ courseCount(semesters', courseAt(semesters, fromSemIdx, fromSlotIdx))
               = courseCount(semesters, courseAt(semesters, fromSemIdx, fromSlotIdx))
          /\ IF slotAt(semesters, fromSemIdx, fromSlotIdx).isExtra
               THEN Len(semesters'[fromSemIdx + 1].slots)
                      = Len(semesters[fromSemIdx + 1].slots) - 1
               ELSE /\ slotCounts(semesters') = slotCounts(semesters)
                    /\ ~filledSlot(slotAt(semesters', fromSemIdx, fromSlotIdx))
                    /\ ~slotAt(semesters', fromSemIdx, fromSlotIdx).isExtra]_vars

\* A course was moved into an existing empty slot.
C8_Witness == last.op = "moveCourse" /\ last.branch = "toEmpty"

\* C9, as stated: moveCourse without a target slot puts the course in the
\* lowest-indexed empty slot of the target semester; when there is none, the
\* course is in a new supplemental slot at the end and the semester has one
\* slot more than before.
C9_DropGrowsByOne ==
  [][\A fromSemIdx \in SemArgs, fromSlotIdx \in SlotArgs, toSemIdx \in SemArgs :
       ( /\ last'.op = "moveCourse"
         /\ occupied(semesters, fromSemIdx, fromSlotIdx)
         /\ semExists(semesters, toSemIdx)
         /\ MoveCourse(fromSemIdx, fromSlotIdx, toSemIdx, NoIndex) )
       => IF emptyIndexes(semesters[toSemIdx + 1].slots) # {}
            THEN courseAt(semesters', toSemIdx,
                          indexAfterMove(semesters, fromSemIdx, fromSlotIdx, toSemIdx,
                                         lowestEmpty(semesters[toSemIdx + 1].slots)))
                   = courseAt(semesters, fromSemIdx, fromSlotIdx)
            ELSE /\ Len(semesters'[toSemIdx + 1].slots)
                      = Len(semesters[toSemIdx + 1].slots) + 1
                 /\ courseAt(semesters', toSemIdx,
                             Len(semesters'[toSemIdx + 1].slots) - 1)
                      = courseAt(semesters, fromSemIdx, fromSlotIdx)
                 /\ slotAt(semesters', toSemIdx,
                           Len(semesters'[toSemIdx + 1].slots) - 1).isExtra]_vars

\* C9, amended: as stated, but when the target semester has no empty slot and
\* the source is a supplemental slot of that same semester, the source slot is
\* removed and the semester has as many slots as before.
C9_DropFillsLowestOrAppends ==
  [][\A fromSemIdx \in SemArgs, fromSlotIdx \in SlotArgs, toSemIdx \in SemArgs :
       ( /\ last'.op = "moveCourse"
         /\ occupied(semesters, fromSemIdx, fromSlotIdx)
         /\ semExists(semesters, toSemIdx)
         /\ MoveCourse(fromSemIdx, fromSlotIdx, toSemIdx, NoIndex) )
       => IF emptyIndexes(semesters[toSemIdx + 1].slots) # {}
            THEN courseAt(semesters', toSemIdx,
                          indexAfterMove(semesters, fromSemIdx, fromSlotIdx, toSemIdx,
                                         lowestEmpty(semesters[toSemIdx + 1].slots)))
                   = courseAt(semesters, fromSemIdx, fromSlotIdx)
            ELSE /\ Len(semesters'[toSemIdx + 1].slots)
                      = IF /\ fromSemIdx = toSemIdx
                           /\ slotAt(semesters, fromSemIdx, fromSlotIdx).isExtra
                          THEN Len(semesters[toSemIdx + 1].slots)
                          ELSE Len(semesters[toSemIdx + 1].slots) + 1
                 /\ courseAt(semesters', toSemIdx,
                             Len(semesters'[toSemIdx + 1].slots) - 1)
                      = courseAt(semesters, fromSemIdx, fromSlotIdx)
                 /\ slotAt(semesters', toSemIdx,
                           Len(semesters'[toSemIdx + 1].slots) - 1).isExtra]_vars

\* A course was dropped on a semester with no empty slot.
C9_Witness == last.op = "moveCourse" /\ last.branch = "toAppended"

\* C10: the stored validity map is the one buildPrereqFailures gives for the
\* current schedule, after every operation (both phases of applyPreset
\* included).
C10_FailuresAreCurrent == prereqFailures = buildPrereqFailures(semesters)

\* The rows of a preset were written and a slot fails its prerequisites.
C10_Witness ==
  /\ last.op = "presetFetch"
  /\ last.branch = "rows"
  /\ DOMAIN prereqFailures # {}

(***************************************************************************)
(* The prerequisite expression engine on well-formed expressions           *)
(***************************************************************************)
\* The longest token stream drawn.
MaxTokens == 9

\* The canonical codes the expressions are built from.
ExprCodes == { normalizeRequirementCode(CS1), normalizeRequirementCode(MA1),
               normalizeRequirementCode(MA2) }

\* The well-formed infix expressions of n + 1 tokens over codes, given those
\* of 1..n tokens: a code, "( e )", "a and b", "a or b".
exprsOfNextLen(codes, table) ==
  IF Len(table) = 0 THEN { << c >> : c \in codes }
  ELSE (IF Len(table) >= 2
          THEN { << TokOpen >> \o e \o << TokClose >> : e \in table[Len(table) - 1] }
          ELSE {})
       \cup UNION { { a \o << op >> \o b :
                        a \in table[i], b \in table[Len(table) - i],
                        op \in {TokAnd, TokOr} } :
                    i \in 1..(Len(table) - 1) }

RECURSIVE exprTable(_, _)
exprTable(codes, n) ==
  IF n <= 0 THEN << >>
  ELSE Append(exprTable(codes, n - 1), exprsOfNextLen(codes, exprTable(codes, n - 1)))

exprsUpTo(codes, n) == UNION { exprTable(codes, n)[k] : k \in 1..n }

\* Expressions of up to MaxTokens tokens over two codes, and of two tokens
\* fewer over three.
WellFormedExprs ==
  exprsUpTo(ExprCodes \ {normalizeRequirementCode(MA2)}, MaxTokens)
    \cup exprsUpTo(ExprCodes, MaxTokens - 2)

\* The text of a token stream: the tokens separated by blanks.
RECURSIVE textOfTokens(_)
textOfTokens(tokens) ==
  IF Len(tokens) = 0 THEN << >>
  ELSE IF Len(tokens) = 1 THEN tokens[1]
  ELSE tokens[1] \o << " " >> \o textOfTokens(Tail(tokens))

\* Direct evaluation of the infix expression, a code being true iff it is in
\* avail, "and" binding tighter than "or".  Each operator gives the value of
\* the part starting at p and the position after it.
RECURSIVE valueOr(_, _, _)
RECURSIVE valueOrRest(_, _, _)
RECURSIVE valueAnd(_, _, _)
RECURSIVE valueAndRest(_, _, _)
RECURSIVE valueAtom(_, _, _)
closeAfter(r) == [val |-> r.val, next |-> r.next + 1]

both(a, b) == [val |-> a.val /\ b.val, next |-> b.next]

either(a, b) == [val |-> a.val \/ b.val, next |-> b.next]

valueAtom(tokens, p, avail) ==
  IF tokens[p] = TokOpen
    THEN closeAfter(valueOr(tokens, p + 1, avail))
    ELSE [val |-> tokens[p] \in avail, next |-> p + 1]

valueAndRest(tokens, left, avail) ==
  IF left.next <= Len(tokens) /\ tokens[left.next] = TokAnd
    THEN valueAndRest(tokens, both(left, valueAtom(tokens, left.next + 1, avail)), avail)
    ELSE left

valueAnd(tokens, p, avail) == valueAndRest(tokens, valueAtom(tokens, p, avail), avail)

valueOrRest(tokens, left, avail) ==
  IF left.next <= Len(tokens) /\ tokens[left.next] = TokOr
    THEN valueOrRest(tokens, either(left, valueAnd(tokens, left.next + 1, avail)), avail)
    ELSE left

valueOr(tokens, p, avail) == valueOrRest(tokens, valueAnd(tokens, p, avail), avail)

valueOfExpr(tokens, avail) == valueOr(tokens, 1, avail).val

\* The schedule of a first visit, for the specifications that exercise one
\* function.
FirstVisit ==
  /\ semesters = normalizeLoadedState(rawNothing).semesters
  /\ presetId = ""
  /\ showSummer = TRUE
  /\ prereqFailures = renderPrereqFailures(normalizeLoadedState(rawNothing).semesters)
  /\ currentSemesterIndex = 0
  /\ presetLoadToken = 0
  /\ presetFetches = {}

InitParse ==
  /\ FirstVisit
  /\ \E tokens \in WellFormedExprs :
       pureIn = [tokens |-> tokens, rawText |-> textOfTokens(tokens)]
  /\ pureOut = << >>
  /\ last = [op |-> "init", branch |-> "done"]

\* parsePrereqGroups(rawText)
ParsePrereqGroups ==
  /\ last.op = "init"
  /\ pureOut' = parsePrereqGroups(pureIn.rawText)
  /\ last' = [op |-> "parsePrereqGroups", branch |-> "done"]
  /\ UNCHANGED << semesters, presetId, currentSemesterIndex, showSummer,
                  prereqFailures, presetLoadToken, presetFetches, pureIn >>

NextParse == ParsePrereqGroups

SpecParse == InitParse /\ [][NextParse]_vars

someClauseWithin(groups, avail) ==
  \E g \in 1..Len(groups) : SeqToSet(groups[g]) \subseteq avail

\* C2: for a well-formed expression of codes, 'and', 'or' and parentheses,
\* and every set of available codes, the clause list of parsePrereqGroups has
\* a clause contained in the set exactly when the expression, evaluated
\* directly with a code true iff available, is true.
C2_DnfAgreesWithEvaluation ==
  last.op = "parsePrereqGroups"
    => \A avail \in SUBSET ExprCodes :
         someClauseWithin(pureOut, avail) <=> valueOfExpr(pureIn.tokens, avail)

\* A parenthesized "or" under an "and" was expanded to several clauses of
\* several codes.
C2_Witness ==
  /\ last.op = "parsePrereqGroups"
  /\ \E p \in 1..Len(pureIn.tokens) : pureIn.tokens[p] = TokOpen
  /\ Len(pureOut) >= 2
  /\ \E g \in 1..Len(pureOut) : Len(pureOut[g]) >= 2

(***************************************************************************)
(* The credit categorizer (renderRequirementsPanel)                        *)
(***************************************************************************)
DigitSeq == << "0","1","2","3","4","5","6","7","8","9" >>

digitValue(c) == (CHOOSE i \in 1..10 : DigitSeq[i] = c) - 1

IsNumericChar(c) == c \in DigitChars \cup {".", "-"}

\* The number of digits of s from position p on.
RECURSIVE digitsLen(_, _)
digitsLen(s, p) ==
  IF p <= Len(s) /\ s[p] \in DigitChars THEN 1 + digitsLen(s, p + 1) ELSE 0

RECURSIVE decimalValue(_)
decimalValue(ds) ==
  IF Len(ds) = 0 THEN 0
  ELSE 10 * decimalValue(SubSeq(ds, 1, Len(ds) - 1)) + digitValue(ds[Len(ds)])

\* The fraction digits fs in hundredths (the catalog gives two at most).
hundredthsOf(fs) ==
  (IF Len(fs) >= 1 THEN 10 * digitValue(fs[1]) ELSE 0)
    + (IF Len(fs) >= 2 THEN digitValue(fs[2]) ELSE 0)

\* A number parseFloat gives: NaN, or a value in hundredths.
NotANumber == [finite |-> FALSE, value |-> 0]

finiteValue(x) == [finite |-> TRUE, value |-> x]

\* parseFloat of the digits of s from p: n integer digits, then f fraction
\* digits after a point.
floatOfDigits(s, p, n, f) ==
  IF n = 0 /\ f = 0 THEN NotANumber
  ELSE finiteValue(100 * decimalValue(SubSeq(s, p, p + n - 1))
                     + hundredthsOf(SubSeq(s, p + n + 1, p + n + f)))

fractionLen(s, q) == IF q <= Len(s) /\ s[q] = "." THEN digitsLen(s, q + 1) ELSE 0

unsignedFloat(s, p, n) == floatOfDigits(s, p, n, fractionLen(s, p + n))

negated(x) == [x EXCEPT !.value = 0 - @]

parseFloat(s) ==
  IF Len(s) > 0 /\ s[1] = "-"
    THEN negated(unsignedFloat(s, 2, digitsLen(s, 2)))
    ELSE unsignedFloat(s, 1, digitsLen(s, 1))

\* Number.isFinite(num) ? num : 0
finiteOrZero(num) == IF num.finite THEN num.value ELSE 0

\* parseCredits(val), in hundredths; val is << >> for null and undefined.
parseCredits(val) ==
  IF Len(val) = 0 THEN 0 ELSE finiteOrZero(parseFloat(SelectSeq(val, IsNumericChar)))

getMajorDept(majorId) ==
  IF majorId = "me" THEN "Mechanical Engineering"
  ELSE IF majorId = "cive" THEN "Civil Engineering"
  ELSE IF majorId = "cs" THEN "Computer Science"
  ELSE IF majorId \in {"ee1", "ee2"} THEN "Electrical and Computer Engineering"
  ELSE IF majorId = "cheme" THEN "Chemical Engineering"
  ELSE ""

isEngineeringDept(dept) ==
  dept \in { "Biology", "Chemical Engineering", "Chemistry", "Civil Engineering",
             "Computer Science", "Electrical and Computer Engineering",
             "Engineering Sciences", "Interdisciplinary Engineering",
             "Mathematics", "Mechanical Engineering", "Physics" }

isHumanitiesSocialDept(dept) ==
  dept \in { "Humanities", "Social Sciences", "History and Theory of Art" }

hasNode(nodeId) == nodeId \in NodeIds

nodeDept(nodeId) == IF hasNode(nodeId) THEN nodes[nodeId].dept ELSE ""

nodeCredits(nodeId) == IF hasNode(nodeId) THEN nodes[nodeId].credits ELSE << >>

\* fallbackRequirementType(nodes.get(nodeId))
fallbackRequirementType(nodeId) ==
  IF ~hasNode(nodeId) THEN "free_electives"
  ELSE IF isHumanitiesSocialDept(nodeDept(nodeId))
    THEN "humanities_social_science_electives"
  ELSE IF isEngineeringDept(nodeDept(nodeId)) THEN "engineering_electives"
  ELSE "free_electives"

\* A slip: an entry with both lists empty applies to no major.
courseAppliesToMajorListed(req, majorId) ==
  IF majorId = "" THEN FALSE
  ELSE majorId \in req.required_for_majors \/ majorId \in req.elective_for_majors

courseAppliesToMajor(req, majorId) ==
  IF majorId = "" THEN FALSE
  ELSE IF req.required_for_majors = {} /\ req.elective_for_majors = {} THEN TRUE
  ELSE majorId \in req.required_for_majors \/ majorId \in req.elective_for_majors

\* The requirements file: per canonical code the requirement type and the
\* majors it is required or elective for.
\* requirement_type is one of the four types the data builder allows.  CS 2
\* and the unknown course have no entry.
courseRequirements ==
  [canon \in { normalizeRequirementCode(CS1), normalizeRequirementCode(MA1),
               normalizeRequirementCode(MA2), normalizeRequirementCode(HU1),
               normalizeRequirementCode(SS1) } |->
     IF canon = normalizeRequirementCode(CS1)
       THEN [code |-> CS1, requirement_type |-> "engineering_electives",
             required_for_majors |-> {}, elective_for_majors |-> {}]
     ELSE IF canon = normalizeRequirementCode(MA1)
       THEN [code |-> MA1, requirement_type |-> "required_coursework",
             required_for_majors |-> {"cs"}, elective_for_majors |-> {"me"}]
     ELSE IF canon = normalizeRequirementCode(MA2)
       THEN [code |-> MA2, requirement_type |-> "required_coursework",
             required_for_majors |-> {"me"}, elective_for_majors |-> {}]
     ELSE IF canon = normalizeRequirementCode(HU1)
       THEN [code |-> HU1, requirement_type |-> "engineering_electives",
             required_for_majors |-> {}, elective_for_majors |-> {"cs"}]
     ELSE [code |-> SS1, requirement_type |-> "free_electives",
           required_for_majors |-> {}, elective_for_majors |-> {}]] @@ << >>

\* The file with the credit totals degreeCap and engineeringCap for the
\* majors "cs" and "me".
requirementsFile(degreeCap, engineeringCap) ==
  [loaded |-> TRUE,
   majors |-> [id \in PresetIds |->
                 [degree_electives |-> degreeCap,
                  engineering_electives |-> engineeringCap]],
   courseRequirements |-> courseRequirements]

\* requirementsData = null: the file did not load.
noRequirementsData == [loaded |-> FALSE]

\* majorData.credits[key] when finite, else 0.
creditCap(data, majorId, key) ==
  IF majorId \in DOMAIN data.majors THEN data.majors[majorId][key] ELSE 0

hasRequirement(data, canon) == canon \in DOMAIN data.courseRequirements

\* req.requirement_type of the course, "" without an entry.
rawTypeOf(data, canon) ==
  IF hasRequirement(data, canon)
    THEN data.courseRequirements[canon].requirement_type
    ELSE ""

requirementTypeOf(data, majorId, nodeId) ==
  IF rawTypeOf(data, normalizeRequirementCode(nodeId)) = ""
    THEN fallbackRequirementType(nodeId)
  ELSE IF ~courseAppliesToMajor(
             data.courseRequirements[normalizeRequirementCode(nodeId)], majorId)
    THEN fallbackRequirementType(nodeId)
  ELSE rawTypeOf(data, normalizeRequirementCode(nodeId))

\* A slip: a course the major only takes as an elective counts as required.
requiredForMajorOrElective(data, majorId, canon) ==
  /\ hasRequirement(data, canon)
  /\ \/ majorId \in data.courseRequirements[canon].required_for_majors
     \/ majorId \in data.courseRequirements[canon].elective_for_majors

requiredForMajor(data, majorId, canon) ==
  /\ hasRequirement(data, canon)
  /\ majorId \in data.courseRequirements[canon].required_for_majors

noCredits ==
  [required_coursework |-> 0, degree_electives |-> 0, engineering_electives |-> 0,
   free_electives |-> 0, humanities_social_science_electives |-> 0]

addCredits(selectedCredits, key, credits) ==
  [selectedCredits EXCEPT ![key] = @ + credits]

\* A slip: a course of the major's department that does not fit in the degree
\* electives skips the engineering electives.
ownDeptBucketSkipping(selectedCredits, credits, degreeCap, engineeringCap) ==
  IF selectedCredits.degree_electives + credits <= degreeCap
    THEN "degree_electives"
    ELSE "free_electives"

\* The bucket of an engineering elective of the major's own department.  In
\* hundredths the 1e-6 tolerance of the comparisons admits nothing.
ownDeptBucket(selectedCredits, credits, degreeCap, engineeringCap) ==
  IF selectedCredits.degree_electives + credits <= degreeCap
    THEN "degree_electives"
  ELSE IF selectedCredits.engineering_electives + credits <= engineeringCap
    THEN "engineering_electives"
  ELSE "free_electives"

\* A slip: the engineering electives take a course without a look at the cap.
otherDeptBucketUncapped(selectedCredits, credits, engineeringCap) ==
  "engineering_electives"

\* The bucket of an engineering elective of another engineering department.
otherDeptBucket(selectedCredits, credits, engineeringCap) ==
  IF selectedCredits.engineering_electives + credits <= engineeringCap
    THEN "engineering_electives"
    ELSE "free_electives"

\* A slip: every engineering department counts as the major's own.
isMajorDeptAny(majorId, courseDept) == getMajorDept(majorId) # ""

isMajorDept(majorId, courseDept) ==
  getMajorDept(majorId) # "" /\ courseDept = getMajorDept(majorId)

\* A slip: the course's department is not tested against the engineering
\* departments.
engineeringBucketAnyDept(selectedCredits, credits, data, majorId, courseDept) ==
  IF isMajorDept(majorId, courseDept)
    THEN ownDeptBucket(selectedCredits, credits,
                       creditCap(data, majorId, "degree_electives"),
                       creditCap(data, majorId, "engineering_electives"))
  ELSE otherDeptBucket(selectedCredits, credits,
                       creditCap(data, majorId, "engineering_electives"))

engineeringBucket(selectedCredits, credits, data, majorId, courseDept) ==
  IF ~isEngineeringDept(courseDept) THEN "free_electives"
  ELSE IF isMajorDept(majorId, courseDept)
    THEN ownDeptBucket(selectedCredits, credits,
                       creditCap(data, majorId, "degree_electives"),
                       creditCap(data, majorId, "engineering_electives"))
  ELSE otherDeptBucket(selectedCredits, credits,
                       creditCap(data, majorId, "engineering_electives"))

\* One turn of the loop, from the point where the course's requirement type
\* and credits are known.
creditCourse(selectedCredits, data, majorId, nodeId, requirementType, credits) ==
  IF requirementType = "required_coursework"
    THEN IF requiredForMajor(data, majorId, normalizeRequirementCode(nodeId))
           THEN addCredits(selectedCredits, "required_coursework", credits)
           ELSE selectedCredits
  ELSE IF requirementType = "humanities_social_science_electives"
    THEN addCredits(selectedCredits, "humanities_social_science_electives", credits)
  ELSE IF requirementType = "free_electives"
    THEN addCredits(selectedCredits, "free_electives", credits)
  ELSE IF requirementType = "engineering_electives" /\ hasNode(nodeId)
    THEN addCredits(selectedCredits,
                    engineeringBucket(selectedCredits, credits, data, majorId,
                                      nodeDept(nodeId)),
                    credits)
  ELSE IF requirementType \in DOMAIN selectedCredits
    THEN addCredits(selectedCredits, requirementType, credits)
  ELSE selectedCredits

\* The loop over getSelectedCourseIdsOrdered().
RECURSIVE creditCourses(_, _, _, _)
creditCourses(ordered, n, data, majorId) ==
  IF n = 0 THEN noCredits
  ELSE creditCourse(creditCourses(ordered, n - 1, data, majorId), data, majorId,
                    ordered[n],
                    requirementTypeOf(data, majorId, ordered[n]),
                    parseCredits(nodeCredits(ordered[n])))

slotCourseId(slot) == slot.courseId

filledIdsOf(sem) ==
  [j \in 1..Len(SelectSeq(sem.slots, filledSlot)) |->
     slotCourseId(SelectSeq(sem.slots, filledSlot)[j])]

RECURSIVE filledIdsFrom(_, _)
filledIdsFrom(sems, i) ==
  IF i > Len(sems) THEN << >>
  ELSE filledIdsOf(sems[i]) \o filledIdsFrom(sems, i + 1)

\* A slip: a code is compared with the one just before it only.
RECURSIVE firstOfEachCodeInARow(_, _)
firstOfEachCodeInARow(ids, n) ==
  IF n = 0 THEN << >>
  ELSE IF \/ Len(normalizeRequirementCode(ids[n])) = 0
          \/ /\ n > 1
             /\ normalizeRequirementCode(ids[n - 1]) = normalizeRequirementCode(ids[n])
    THEN firstOfEachCodeInARow(ids, n - 1)
  ELSE Append(firstOfEachCodeInARow(ids, n - 1), ids[n])

\* The ids whose canonical code is not empty and was not seen before.
RECURSIVE firstOfEachCode(_, _)
firstOfEachCode(ids, n) ==
  IF n = 0 THEN << >>
  ELSE IF \/ Len(normalizeRequirementCode(ids[n])) = 0
          \/ \E k \in 1..(n - 1) :
               normalizeRequirementCode(ids[k]) = normalizeRequirementCode(ids[n])
    THEN firstOfEachCode(ids, n - 1)
  ELSE Append(firstOfEachCode(ids, n - 1), ids[n])

\* A slip: no code is skipped, a course is handled once per slot it holds.
orderedOfEverySlot(ids) ==
  SelectSeq(ids, LAMBDA id : Len(normalizeRequirementCode(id)) > 0)

orderedOf(ids) == firstOfEachCode(ids, Len(ids))

getSelectedCourseIdsOrdered(sems) == orderedOf(filledIdsFrom(sems, 1))

buildSelectedCourseSet(sems) ==
  { normalizeRequirementCode(id) : id \in getAllSelectedCourseIdSet(sems) } \ { << >> }

selectedIn(sems, nodeId) == normalizeRequirementCode(nodeId) \in buildSelectedCourseSet(sems)

\* selectedCredits after the loop, for the ordered ids that pass the test
\* "canon && selected.has(canon)".  In hundredths toFixed(2) changes nothing.
selectedCreditsOf(sems, data, majorId) ==
  creditCourses(SelectSeq(getSelectedCourseIdsOrdered(sems),
                          LAMBDA id : selectedIn(sems, id)),
                Len(SelectSeq(getSelectedCourseIdsOrdered(sems),
                              LAMBDA id : selectedIn(sems, id))),
                data, majorId)

\* The courses planned before the panel is drawn: up to MaxPlanned courses,
\* the first two in the first semester, the third in the second.
MaxPlanned == 3

PlannedCourses == {CS1, CS2, MA1, MA2, HU1, SS1, XX9}

plannedSlot(n) == IF n <= 2 THEN << 0, n - 1 >> ELSE << 1, n - 3 >>

RECURSIVE planOf(_, _)
planOf(courses, n) ==
  IF n = 0 THEN normalizeLoadedState(rawNothing).semesters
  ELSE selectCourseSlots(planOf(courses, n - 1), plannedSlot(n)[1], plannedSlot(n)[2],
                         courses[n])

Plans == UNION { [1..n -> PlannedCourses] : n \in 0..MaxPlanned }

DegreeCaps == {0, 400, 700}

EngineeringCaps == {0, 300, 400, 700}

RequirementsInputs ==
  { requirementsFile(d, e) : d \in DegreeCaps, e \in EngineeringCaps }
    \cup { noRequirementsData }

InitCat ==
  /\ \E courses \in Plans :
       /\ semesters = planOf(courses, Len(courses))
       /\ prereqFailures = renderPrereqFailures(planOf(courses, Len(courses)))
  /\ presetId \in {"", "cs", "me", "zz"}
  /\ pureIn \in RequirementsInputs
  /\ pureOut = noCredits
  /\ showSummer = TRUE
  /\ currentSemesterIndex = 0
  /\ presetLoadToken = 0
  /\ presetFetches = {}
  /\ last = [op |-> "init", branch |-> "done"]

\* renderRequirementsPanel(): pureIn is requirementsData, pureOut the credits
\* it shows per category.
RenderRequirementsPanel ==
  /\ last.op = "init"
  /\ IF presetId = ""
       THEN /\ pureOut' = pureOut
            /\ last' = [op |-> "renderRequirementsPanel", branch |-> "noMajor"]
     ELSE IF ~pureIn.loaded
       THEN /\ pureOut' = pureOut
            /\ last' = [op |-> "renderRequirementsPanel", branch |-> "noData"]
     ELSE /\ pureOut' = selectedCreditsOf(semesters, pureIn, presetId)
          /\ last' = [op |-> "renderRequirementsPanel", branch |-> "credits"]
  /\ UNCHANGED << semesters, presetId, currentSemesterIndex, showSummer,
                  prereqFailures, presetLoadToken, presetFetches, pureIn >>

NextCat == RenderRequirementsPanel

SpecCat == InitCat /\ [][NextCat]_vars

(***************************************************************************)
(* The missing required courses of the panel                               *)
(***************************************************************************)
\* The place of a character in the order of localeCompare, for the characters
\* of course codes: the space, the digits, the letters.
charRank(c) ==
  IF c \in DigitChars THEN 1 + digitValue(c)
  ELSE IF toUpperChar(c) \in UpperChars
    THEN 10 + (CHOOSE i \in 1..26 : UpperSeq[i] = toUpperChar(c))
  ELSE 0

\* a.localeCompare(b) < 0
RECURSIVE codeBefore(_, _)
codeBefore(a, b) ==
  IF Len(a) = 0 THEN Len(b) > 0
  ELSE IF Len(b) = 0 THEN FALSE
  ELSE IF charRank(a[1]) = charRank(b[1]) THEN codeBefore(Tail(a), Tail(b))
  ELSE charRank(a[1]) < charRank(b[1])

leastCode(codes) ==
  CHOOSE code \in codes : \A other \in codes \ {code} : ~codeBefore(other, code)

\* requiredCourses.sort((a, b) => a.localeCompare(b))
RECURSIVE sortedCodes(_)
sortedCodes(codes) ==
  IF codes = {} THEN << >>
  ELSE << leastCode(codes) >> \o sortedCodes(codes \ {leastCode(codes)})

\* A slip: the requirement type of the entry is not looked at.
requiredCoursesOfAnyType(data, majorId) ==
  sortedCodes({ data.courseRequirements[canon].code :
                  canon \in { canon \in DOMAIN data.courseRequirements :
                       majorId \in data.courseRequirements[canon].required_for_majors } })

\* requiredCourses: req.code of the entries of type required_coursework whose
\* required_for_majors includes the major, sorted.
requiredCourses(data, majorId) ==
  sortedCodes({ data.courseRequirements[canon].code :
                  canon \in { canon \in DOMAIN data.courseRequirements :
                       /\ data.courseRequirements[canon].requirement_type
                            = "required_coursework"
                       /\ majorId \in data.courseRequirements[canon].required_for_majors } })

\* requiredCourses.filter(code => canon && !selected.has(canon))
missingRequired(sems, data, majorId) ==
  SelectSeq(requiredCourses(data, majorId),
            LAMBDA code : /\ normalizeRequirementCode(code) # << >>
                          /\ normalizeRequirementCode(code)
                               \notin buildSelectedCourseSet(sems))

\* The codes under "Missing required courses:", none when the panel shows
\* one of its two messages or no such row.
shownMissingRequired(sems, data, majorId) ==
  IF majorId = "" THEN << >>
  ELSE IF ~data.loaded THEN << >>
  ELSE missingRequired(sems, data, majorId)

\* A requirements file in which MA 1 and MA 2 are both required for "cs",
\* and the entry of HU 1, an engineering elective, names "cs" as well.
requirementsBothRequired ==
  [requirementsFile(0, 0) EXCEPT
     !.courseRequirements[normalizeRequirementCode(MA2)].required_for_majors =
        {"cs", "me"},
     !.courseRequirements[normalizeRequirementCode(HU1)].required_for_majors =
        {"cs"}]

\* render() with the panel's list of missing required courses in pureOut.
RenderedWithPanel(sems) ==
  /\ Rendered(sems)
  /\ pureOut' = shownMissingRequired(sems, pureIn, presetId)

SelectCourseAndPanel(semIdx, slotIdx, nodeId) ==
  IF ~slotExists(semesters, semIdx, slotIdx)
    THEN Returned("selectCourse", "return")
    ELSE /\ RenderedWithPanel(selectCourseSlots(semesters, semIdx, slotIdx, nodeId))
         /\ last' = [op |-> "selectCourse", branch |-> "done"]
         /\ UNCHANGED << presetId, showSummer, presetLoadToken, presetFetches, pureIn >>

ClearCourseAndPanel(semIdx, slotIdx) ==
  IF ~slotExists(semesters, semIdx, slotIdx)
    THEN Returned("clearCourse", "return")
    ELSE /\ RenderedWithPanel(clearCourseSlots(semesters, semIdx, slotIdx))
         /\ last' = [op |-> "clearCourse", branch |-> "done"]
         /\ UNCHANGED << presetId, showSummer, presetLoadToken, presetFetches, pureIn >>

\* An empty plan, a major or none, a requirements file or none.
InitRequired ==
  /\ semesters = normalizeLoadedState(rawNothing).semesters
  /\ prereqFailures = renderPrereqFailures(normalizeLoadedState(rawNothing).semesters)
  /\ presetId \in {"", "cs", "me"}
  /\ pureIn \in {requirementsFile(0, 0), requirementsBothRequired, noRequirementsData}
  /\ pureOut = shownMissingRequired(semesters, pureIn, presetId)
  /\ showSummer = TRUE
  /\ currentSemesterIndex = 0
  /\ presetLoadToken = 0
  /\ presetFetches = {}
  /\ last = [op |-> "init", branch |-> "done"]

NextRequired ==
  \/ \E semIdx \in {0, 1}, slotIdx \in {0, 8}, nodeId \in {MA1, MA2, HU1} :
       SelectCourseAndPanel(semIdx, slotIdx, nodeId)
  \/ \E semIdx \in {0, 1}, slotIdx \in {0, 8} : ClearCourseAndPanel(semIdx, slotIdx)

SpecRequired == InitRequired /\ [][NextRequired]_vars

\* Plans that hold a course the catalog lacks, XX 9, next to CS 3, which
\* names it as its prerequisite, and CS 1.
UnknownPlans == UNION { [1..n -> {XX9, CS3, CS1}] : n \in 0..MaxPlanned }

InitUnknown ==
  /\ \E courses \in UnknownPlans :
       /\ semesters = planOf(courses, Len(courses))
       /\ prereqFailures = renderPrereqFailures(planOf(courses, Len(courses)))
  /\ presetId \in {"", "cs", "me", "zz"}
  /\ pureIn \in RequirementsInputs
  /\ pureOut = noCredits
  /\ showSummer = TRUE
  /\ currentSemesterIndex = 0
  /\ presetLoadToken = 0
  /\ presetFetches = {}
  /\ last = [op |-> "init", branch |-> "done"]

SpecUnknown == InitUnknown /\ [][NextCat]_vars

\* The last course the loop handled, and the credits before it.
lastOrdered(sems) ==
  getSelectedCourseIdsOrdered(sems)[Len(getSelectedCourseIdsOrdered(sems))]

creditsBeforeLast(sems, data, majorId) ==
  creditCourses(getSelectedCourseIdsOrdered(sems),
                Len(getSelectedCourseIdsOrdered(sems)) - 1, data, majorId)

\* The panel was drawn and the last course handled is an engineering elective
\* of the major's own department that does not fit entirely under the
\* degree_electives cap.
ownDeptOverflow ==
  /\ last.op = "renderRequirementsPanel"
  /\ last.branch = "credits"
  /\ Len(getSelectedCourseIdsOrdered(semesters)) > 0
  /\ hasNode(lastOrdered(semesters))
  /\ requirementTypeOf(pureIn, presetId, lastOrdered(semesters)) = "engineering_electives"
  /\ isMajorDept(presetId, nodeDept(lastOrdered(semesters)))
  /\ creditsBeforeLast(semesters, pureIn, presetId).degree_electives
       + parseCredits(nodeCredits(lastOrdered(semesters)))
       > creditCap(pureIn, presetId, "degree_electives")

\* What such a course would add to each bucket if it were split: excess is
\* the amount over the degree_electives cap, room the headroom of
\* engineering_electives.
splitOf(credits, excess, room) ==
  [degree_electives |-> credits - excess,
   engineering_electives |-> Min2(excess, Max2(room, 0)),
   free_electives |-> excess - Min2(excess, Max2(room, 0))]

addedBy(before, after) ==
  [degree_electives |-> after.degree_electives - before.degree_electives,
   engineering_electives |-> after.engineering_electives - before.engineering_electives,
   free_electives |-> after.free_electives - before.free_electives]

wholeTo(bucket, credits) ==
  [degree_electives |-> IF bucket = "degree_electives" THEN credits ELSE 0,
   engineering_electives |-> IF bucket = "engineering_electives" THEN credits ELSE 0,
   free_electives |-> IF bucket = "free_electives" THEN credits ELSE 0]

semestersHolding(sems, code) ==
  { i \in 0..(Len(sems) - 1) : code \in semesterCodes(sems[i + 1]) }

placedCodes(sems) == UNION { semesterCodes(sems[i]) : i \in 1..Len(sems) }

earliestSemester(sems, code) ==
  CHOOSE i \in semestersHolding(sems, code) :
    \A k \in semestersHolding(sems, code) : i <= k

clauseCodes(groups) == UNION { SeqToSet(groups[g]) : g \in 1..Len(groups) }

mapIsEarliest(toSem, sems) ==
  /\ DOMAIN toSem = placedCodes(sems)
  /\ \A code \in DOMAIN toSem : toSem[code] = earliestSemester(sems, code)

\* The slot k lists prerequisites: it is filled and its course has clauses.
listsPrereqs(sems, k) ==
  /\ filledSlot(slotAt(sems, k[1], k[2]))
  /\ Len(nodePrereqGroups(courseAt(sems, k[1], k[2]))) > 0

placedBefore(sems, code, i) ==
  code \in placedCodes(sems) /\ earliestSemester(sems, code) < i

placedAfter(sems, code, i) ==
  code \notin placedCodes(sems) \/ earliestSemester(sems, code) > i

\* C11: the semester at which a code becomes available is the least index of
\* the semesters holding it, for every slot listing it: a code with an
\* occurrence before the slot's semester is never reported missing for the
\* slot, whatever later occurrences it has, and a slot is passed only with a
\* clause whose codes all have their least index at or before the slot's.
C11_EarliestOccurrenceCounts ==
  /\ mapIsEarliest(courseToSem(semesters), semesters)
  /\ \A k \in slotKeys(semesters) :
       listsPrereqs(semesters, k) =>
         IF k \in DOMAIN prereqFailures
           THEN \A code \in clauseCodes(nodePrereqGroups(courseAt(semesters, k[1], k[2]))) :
                  /\ placedBefore(semesters, code, k[1])
                       => code \notin SeqToSet(prereqFailures[k])
                  /\ placedAfter(semesters, code, k[1])
                       => code \in SeqToSet(prereqFailures[k])
           ELSE \E g \in 1..Len(nodePrereqGroups(courseAt(semesters, k[1], k[2]))) :
                  \A code \in SeqToSet(nodePrereqGroups(courseAt(semesters, k[1], k[2]))[g]) :
                    ~placedAfter(semesters, code, k[1])

\* A code is held by a semester before and a semester after that of a slot
\* listing it.
C11_Witness ==
  \E k \in slotKeys(semesters) :
    /\ listsPrereqs(semesters, k)
    /\ \E code \in clauseCodes(nodePrereqGroups(courseAt(semesters, k[1], k[2]))) :
         /\ \E i \in semestersHolding(semesters, code) : i < k[1]
         /\ \E i \in semestersHolding(semesters, code) : i > k[1]

\* C12: with a code available when it is placed in a strictly earlier
\* semester, a slot listing prerequisites has an entry exactly when none of
\* its clauses has all its codes available, and the entry is the set of the
\* clause codes that are not available.
C12_MissingIsUnionOfUnavailable ==
  \A k \in slotKeys(semesters) :
    listsPrereqs(semesters, k) =>
      IF \E g \in 1..Len(nodePrereqGroups(courseAt(semesters, k[1], k[2]))) :
           \A code \in SeqToSet(nodePrereqGroups(courseAt(semesters, k[1], k[2]))[g]) :
             placedBefore(semesters, code, k[1])
        THEN k \notin DOMAIN prereqFailures
        ELSE /\ k \in DOMAIN prereqFailures
             /\ SeqToSet(prereqFailures[k])
                  = { code \in clauseCodes(nodePrereqGroups(courseAt(semesters, k[1], k[2]))) :
                        ~placedBefore(semesters, code, k[1]) }

\* C13: no slot holding a course with an empty prerequisite text is in the
\* failure map.
C13_NoPrereqTextNeverFails ==
  \A k \in slotKeys(semesters) :
    ( /\ filledSlot(slotAt(semesters, k[1], k[2]))
      /\ \/ ~hasNode(courseAt(semesters, k[1], k[2]))
         \/ Len(nodes[courseAt(semesters, k[1], k[2])].prereqText) = 0 )
    => k \notin DOMAIN prereqFailures

\* A course without prerequisite text is placed in a semester after that of
\* a slot that fails.
C13_Witness ==
  /\ DOMAIN prereqFailures # {}
  /\ \E k \in slotKeys(semesters) :
       /\ hasNode(courseAt(semesters, k[1], k[2]))
       /\ Len(nodes[courseAt(semesters, k[1], k[2])].prereqText) = 0
       /\ \E f \in DOMAIN prereqFailures : f[1] < k[1]

(***************************************************************************)
(* Properties of the credit categories                                     *)
(***************************************************************************)
\* The panel was drawn with a major and a loaded requirements file.
creditsDrawn == last.op = "renderRequirementsPanel" /\ last.branch = "credits"

\* The panel was drawn and the loop handled at least one course.
lastHandled == creditsDrawn /\ Len(getSelectedCourseIdsOrdered(semesters)) > 0

\* What the last course handled added to the bucket key.
lastAdded(key) == pureOut[key] - creditsBeforeLast(semesters, pureIn, presetId)[key]

lastCredits == parseCredits(nodeCredits(lastOrdered(semesters)))

\* The last course added nothing to any bucket but key, and amount to key.
lastAddedOnly(key, amount) ==
  \A k \in DOMAIN noCredits : lastAdded(k) = IF k = key THEN amount ELSE 0

RECURSIVE creditsOfSeq(_, _)
creditsOfSeq(ids, n) ==
  IF n = 0 THEN 0
  ELSE creditsOfSeq(ids, n - 1) + parseCredits(nodeCredits(ids[n]))

\* The requirement entry of the course declares required_coursework and lists
\* the major in required_for_majors.
declaredRequiredFor(data, majorId, nodeId) ==
  /\ normalizeRequirementCode(nodeId) \in DOMAIN data.courseRequirements
  /\ data.courseRequirements[normalizeRequirementCode(nodeId)].requirement_type
       = "required_coursework"
  /\ majorId \in data.courseRequirements[normalizeRequirementCode(nodeId)]
                   .required_for_majors

\* The last course handled is categorized as required_coursework and its
\* entry does not list the major in required_for_majors.
lastRequiredElsewhere ==
  /\ lastHandled
  /\ requirementTypeOf(pureIn, presetId, lastOrdered(semesters)) = "required_coursework"
  /\ presetId \notin pureIn.courseRequirements[
                       normalizeRequirementCode(lastOrdered(semesters))]
                     .required_for_majors

\* C14: the required_coursework total is the sum of the credits of the distinct
\* selected courses whose entry declares required_coursework and lists the
\* selected major in required_for_majors; a course categorized as
\* required_coursework whose entry does not list the major there adds credit
\* to no bucket.
C14_RequiredOnlyForListedMajor ==
  /\ creditsDrawn =>
       pureOut.required_coursework
         = creditsOfSeq(SelectSeq(getSelectedCourseIdsOrdered(semesters),
                                  LAMBDA id : declaredRequiredFor(pureIn, presetId, id)),
                        Len(SelectSeq(getSelectedCourseIdsOrdered(semesters),
                                      LAMBDA id : declaredRequiredFor(pureIn, presetId, id))))
  /\ lastRequiredElsewhere =>
       \A k \in DOMAIN noCredits : lastAdded(k) = 0

\* A 4-credit course that is required for another major and an elective of the
\* selected one was handled after a course that did get credit.
C14_Witness ==
  /\ lastRequiredElsewhere
  /\ lastCredits = 400
  /\ presetId \in pureIn.courseRequirements[
                    normalizeRequirementCode(lastOrdered(semesters))]
                  .elective_for_majors
  /\ \E k \in DOMAIN noCredits : pureOut[k] > 0

\* The sum of the credits of a set of course ids.
RECURSIVE creditsOfSet(_)
creditsOfSet(ids) ==
  IF ids = {} THEN 0
  ELSE parseCredits(nodeCredits(CHOOSE id \in ids : TRUE))
         + creditsOfSet(ids \ { CHOOSE id \in ids : TRUE })

\* One id per distinct canonical code held by the schedule.
distinctSelected(sems) ==
  { id \in getAllSelectedCourseIdSet(sems) :
      /\ Len(normalizeRequirementCode(id)) > 0
      /\ id = CHOOSE other \in getAllSelectedCourseIdSet(sems) :
                normalizeRequirementCode(other) = normalizeRequirementCode(id) }

totalOf(selectedCredits) ==
  selectedCredits.required_coursework + selectedCredits.degree_electives
    + selectedCredits.engineering_electives + selectedCredits.free_electives
    + selectedCredits.humanities_social_science_electives

\* C15: the five bucket totals together never exceed the sum of the credits of
\* the distinct selected courses, and a course's credits are counted in at
\* most one bucket: it adds its credits to one bucket and nothing to the
\* others, or nothing at all.
C15_CountedAtMostOnce ==
  /\ creditsDrawn => totalOf(pureOut) <= creditsOfSet(distinctSelected(semesters))
  /\ lastHandled =>
       \/ \A k \in DOMAIN noCredits : lastAdded(k) = 0
       \/ \E key \in DOMAIN noCredits : lastAddedOnly(key, lastCredits)

\* One course holds two slots, another one slot, and their credits are in two
\* different buckets.
C15_Witness ==
  /\ creditsDrawn
  /\ Cardinality(distinctSelected(semesters)) = 2
  /\ Len(filledIdsFrom(semesters, 1)) = 3
  /\ Cardinality({ k \in DOMAIN noCredits : pureOut[k] > 0 }) = 2
  /\ totalOf(pureOut) = creditsOfSet(distinctSelected(semesters))

\* The requirement entry of the course, and whether it lists the major.
entryOf(data, nodeId) == data.courseRequirements[normalizeRequirementCode(nodeId)]

hasEntry(data, nodeId) ==
  normalizeRequirementCode(nodeId) \in DOMAIN data.courseRequirements

listsMajor(data, majorId, nodeId) ==
  \/ majorId \in entryOf(data, nodeId).required_for_majors
  \/ majorId \in entryOf(data, nodeId).elective_for_majors

listsNoMajor(data, nodeId) ==
  /\ entryOf(data, nodeId).required_for_majors = {}
  /\ entryOf(data, nodeId).elective_for_majors = {}

\* The department-derived category of a catalog course.
departmentCategory(nodeId) ==
  IF nodeId \notin NodeIds THEN "free_electives"
  ELSE IF nodes[nodeId].dept \in {"Humanities", "Social Sciences",
                                  "History and Theory of Art"}
    THEN "humanities_social_science_electives"
  ELSE IF isEngineeringDept(nodes[nodeId].dept) THEN "engineering_electives"
  ELSE "free_electives"

\* The last course handled was credited as a course of the given category:
\* a humanities or free elective adds its credits to that bucket only, an
\* engineering elective to one of the three elective buckets only, and
\* required coursework to required_coursework or to nothing.
lastCreditedAs(category) ==
  IF category \in {"humanities_social_science_electives", "free_electives"}
    THEN lastAddedOnly(category, lastCredits)
  ELSE IF category = "engineering_electives"
    THEN /\ lastAdded("required_coursework") = 0
         /\ lastAdded("humanities_social_science_electives") = 0
         /\ \E key \in {"degree_electives", "engineering_electives", "free_electives"} :
              lastAddedOnly(key, lastCredits)
  ELSE /\ \A k \in DOMAIN noCredits \ {"required_coursework"} : lastAdded(k) = 0
       /\ lastAdded("required_coursework") \in {0, lastCredits}

lastIsCandidate ==
  /\ lastHandled
  /\ lastOrdered(semesters) \in NodeIds
  /\ requirementTypeOf(pureIn, presetId, lastOrdered(semesters)) = "engineering_electives"
  /\ isEngineeringDept(nodes[lastOrdered(semesters)].dept)

lastOfMajorDept ==
  /\ getMajorDept(presetId) # ""
  /\ nodes[lastOrdered(semesters)].dept = getMajorDept(presetId)

\* C17: degree_electives receives credits only from engineering-elective
\* candidates of the major's own department; a candidate of another
\* engineering department adds all its credits to engineering_electives when
\* they fit under that cap and to free_electives otherwise, never to
\* degree_electives.
C17_DegreeElectivesOwnDepartmentOnly ==
  /\ (lastHandled /\ lastAdded("degree_electives") # 0)
       => (lastIsCandidate /\ lastOfMajorDept)
  /\ (lastIsCandidate /\ ~lastOfMajorDept)
       => lastAddedOnly(
            IF creditsBeforeLast(semesters, pureIn, presetId).engineering_electives
                 + lastCredits <= creditCap(pureIn, presetId, "engineering_electives")
              THEN "engineering_electives"
              ELSE "free_electives",
            lastCredits)

\* With room left in degree_electives, a mathematics course handled after a
\* course of the computer science major's own department did not fit under
\* the engineering_electives cap and went to free_electives.
C17_Witness ==
  /\ lastIsCandidate
  /\ ~lastOfMajorDept
  /\ getMajorDept(presetId) # ""
  /\ pureOut.degree_electives > 0
  /\ pureOut.degree_electives + lastCredits
       <= creditCap(pureIn, presetId, "degree_electives")
  /\ lastAdded("free_electives") = 400

\* The last course handled is a catalog course categorized as
\* engineering_electives whose department is not a recognized engineering or
\* science department.
lastIsOutsideEngineering ==
  /\ lastHandled
  /\ lastOrdered(semesters) \in NodeIds
  /\ requirementTypeOf(pureIn, presetId, lastOrdered(semesters)) = "engineering_electives"
  /\ ~isEngineeringDept(nodes[lastOrdered(semesters)].dept)

\* C18: an engineering_electives candidate whose department is not a
\* recognized engineering or science department adds all its credits to
\* free_electives and nothing to any other bucket, whatever the caps.
C18_OutsideEngineeringGoesToFree ==
  lastIsOutsideEngineering => lastAddedOnly("free_electives", lastCredits)

\* A 3-credit humanities course listed as an engineering elective of the
\* major went to free_electives although both elective buckets had room.
C18_Witness ==
  /\ lastIsOutsideEngineering
  /\ lastAdded("free_electives") = 300
  /\ pureOut.degree_electives + 300 <= creditCap(pureIn, presetId, "degree_electives")
  /\ pureOut.engineering_electives + 300
       <= creditCap(pureIn, presetId, "engineering_electives")

\* The major's cap of a bucket in the requirements file, 0 when the file has
\* no such major.
capInFile(key) ==
  IF presetId \in DOMAIN pureIn.majors THEN pureIn.majors[presetId][key] ELSE 0

\* C19: the degree_electives total never exceeds the major's degree_electives
\* cap and the engineering_electives total never exceeds the major's
\* engineering_electives cap; a bucket whose cap is missing or zero receives
\* no positive credits.
C19_ElectiveTotalsWithinCaps ==
  creditsDrawn =>
    \A key \in {"degree_electives", "engineering_electives"} :
      /\ pureOut[key] <= capInFile(key)
      /\ capInFile(key) = 0 => pureOut[key] <= 0

\* Both caps were reached or left without room for the next course: a second
\* course of the major's department filled engineering_electives to its cap
\* and a third engineering elective went to free_electives.
C19_Witness ==
  /\ creditsDrawn
  /\ capInFile("degree_electives") = 400
  /\ pureOut.degree_electives = 300
  /\ capInFile("engineering_electives") = 300
  /\ pureOut.engineering_electives = 300
  /\ pureOut.free_electives = 400

\* The filled slots << i, j >> (JavaScript indexes) of the schedule.
filledPlaces(sems) ==
  { place \in (0..(Len(sems) - 1)) \X (0..(BaseSlots + MaxExtraSlots - 1)) :
      /\ place[2] < Len(sems[place[1] + 1].slots)
      /\ filledSlot(sems[place[1] + 1].slots[place[2] + 1]) }

codeAt(sems, place) ==
  normalizeRequirementCode(sems[place[1] + 1].slots[place[2] + 1].courseId)

\* place comes before other in semester order.
precedes(place, other) ==
  \/ place[1] < other[1]
  \/ place[1] = other[1] /\ place[2] < other[2]

\* The slot holds a course that an earlier slot holds too.
repeatsEarlier(sems, place) ==
  \E other \in filledPlaces(sems) :
    precedes(other, place) /\ codeAt(sems, other) = codeAt(sems, place)

\* The slot holds a course that another slot holds too.
repeatsAnother(sems, place) ==
  \E other \in filledPlaces(sems) :
    other # place /\ codeAt(sems, other) = codeAt(sems, place)

\* The totals the panel shows for the schedule without the course of place.
creditsWithout(place) ==
  selectedCreditsOf(clearCourseSlots(semesters, place[1], place[2]), pureIn, presetId)

C21_NeverBelowDefaultSemesters ==
  /\ [](Len(semesters) >= 12)
  /\ [][last'.op = "removeSemester" =>
          IF Len(semesters) <= 12
            THEN semesters' = semesters /\ last'.branch = "return"
            ELSE semesters' = SubSeq(semesters, 1, Len(semesters) - 1)]_vars

\* With summers hidden, so that 8 semesters are visible, a removeSemester call
\* on the 12 default semesters was rejected.
C21_Witness ==
  /\ last.op = "removeSemester"
  /\ last.branch = "return"
  /\ ~showSummer
  /\ Len(semesters) = 12
  /\ Len(getVisibleSemesterIndices(semesters, showSummer)) = 8

(***************************************************************************)
(* Properties of selectCourse and clearCourse                              *)
(***************************************************************************)
\* Between before and after the slots of every semester are as many as they
\* were, every slot but the addressed one is as it was, and the addressed slot
\* has kept its isExtra flag.
onlySlotTouched(before, after, semIdx, slotIdx) ==
  /\ Len(after) = Len(before)
  /\ \A i \in 1..Len(before) :
       /\ Len(after[i].slots) = Len(before[i].slots)
       /\ \A j \in 1..Len(before[i].slots) :
            IF i = semIdx + 1 /\ j = slotIdx + 1
              THEN after[i].slots[j].isExtra = before[i].slots[j].isExtra
              ELSE after[i].slots[j] = before[i].slots[j]

\* C22: selectCourse on an existing slot sets the slot's course to the given
\* code with source "manual", presetId null and addedByPreset false, and
\* changes no other slot, no isExtra flag and no semester's slot count.
C22_SelectCourseWritesOneSlot ==
  [][\A semIdx \in SemArgs, slotIdx \in SlotArgs, nodeId \in CourseArgs :
       ( /\ last'.op = "selectCourse"
         /\ slotExists(semesters, semIdx, slotIdx)
         /\ SelectCourse(semIdx, slotIdx, nodeId) )
       => /\ onlySlotTouched(semesters, semesters', semIdx, slotIdx)
          /\ slotAt(semesters', semIdx, slotIdx).courseId = nodeId
          /\ slotAt(semesters', semIdx, slotIdx).source = "manual"
          /\ slotAt(semesters', semIdx, slotIdx).presetId = NULL
          /\ slotAt(semesters', semIdx, slotIdx).addedByPreset = FALSE]_vars

\* selectCourse ran and the supplemental slot 8 of semester 2 holds a
\* manually selected course and is still supplemental.
C22_Witness ==
  /\ last.op = "selectCourse"
  /\ last.branch = "done"
  /\ slotExists(semesters, 2, 8)
  /\ slotAt(semesters, 2, 8).isExtra
  /\ slotAt(semesters, 2, 8).courseId \in CourseArgs
  /\ slotAt(semesters, 2, 8).source = "manual"

\* C23: clearCourse on an existing slot sets the slot's course, source and
\* presetId to empty and removes no slot: a supplemental slot stays in its
\* semester as an empty supplemental slot, and every other slot is unchanged.
C23_ClearCourseKeepsTheSlot ==
  [][\A semIdx \in SemArgs, slotIdx \in SlotArgs :
       ( /\ last'.op = "clearCourse"
         /\ slotExists(semesters, semIdx, slotIdx)
         /\ ClearCourse(semIdx, slotIdx) )
       => /\ onlySlotTouched(semesters, semesters', semIdx, slotIdx)
          /\ slotAt(semesters', semIdx, slotIdx).courseId = NoCourse
          /\ slotAt(semesters', semIdx, slotIdx).source = NULL
          /\ slotAt(semesters', semIdx, slotIdx).presetId = NULL]_vars

\* clearCourse ran on the supplemental slot 8 of semester 2, the only slot
\* the calls address that is empty, and the slot is still there.
C23_Witness ==
  /\ last.op = "clearCourse"
  /\ last.branch = "done"
  /\ Len(semesters) = 12
  /\ filledSlot(slotAt(semesters, 2, 0))
  /\ slotExists(semesters, 2, 8)
  /\ slotAt(semesters, 2, 8).isExtra
  /\ ~filledSlot(slotAt(semesters, 2, 8))

(***************************************************************************)
(* Properties of the preset loads                                          *)
(***************************************************************************)
\* The request whose response the step handles.
answered(req) == req \in presetFetches /\ req \notin presetFetches'

\* C24: a later applyPreset call for another preset, for the empty preset or
\* for an unknown id supersedes a load that is waiting for its file: when rows
\* are written into the schedule they are those of the load the latest
\* applyPreset call started, whose preset is the selected one.
C24_SupersededRowsNeverWritten ==
  [][(last'.op = "presetFetch" /\ last'.branch = "rows")
       => \E req \in presetFetches :
            /\ answered(req)
            /\ req.token = presetLoadToken
            /\ req.id = presetId]_vars

(***************************************************************************)
(* semesterIndexFromRow on the year and semester texts of preset rows      *)
(***************************************************************************)
\* Year texts with the year they name (0 freshman .. 3 senior, -1 none).
RowYears ==
  { [text |-> << "F","r","e","s","h","m","a","n" >>, index |-> 0],
    [text |-> << "f","r","e","s","h","m","a","n" >>, index |-> 0],
    [text |-> << " ","S","O","P","H","O","M","O","R","E"," " >>, index |-> 1],
    [text |-> << "J","u","n","i","o","r" >>, index |-> 2],
    [text |-> << "S","e","n","i","o","r" >>, index |-> 3],
    [text |-> << "s","e","n","i","o","r","\t" >>, index |-> 3],
    [text |-> << "s","e","n","i","o","r","s" >>, index |-> -1],
    [text |-> << "f","r","e","s","h" >>, index |-> -1],
    [text |-> << "5" >>, index |-> -1],
    [text |-> << >>, index |-> -1] }

\* Semester texts with the term they name (0 fall, 1 spring, 2 summer, -1
\* none).
RowSemesters ==
  { [text |-> << "F","a","l","l" >>, index |-> 0],
    [text |-> << "f","a","l","l"," ","2","5" >>, index |-> 0],
    [text |-> << " ","F","A","L","L" >>, index |-> 0],
    [text |-> << "S","p","r","i","n","g" >>, index |-> 1],
    [text |-> << "s","p","r","i","n","g","t","i","m","e" >>, index |-> 1],
    [text |-> << "S","u","m","m","e","r" >>, index |-> 2],
    [text |-> << "S","U","M","M","E","R"," ","I","I" >>, index |-> 2],
    [text |-> << "f","a","l" >>, index |-> -1],
    [text |-> << "l","a","t","e"," ","f","a","l","l" >>, index |-> -1],
    [text |-> << "w","i","n","t","e","r" >>, index |-> -1],
    [text |-> << >>, index |-> -1] }

InitRow ==
  /\ FirstVisit
  /\ pureIn \in [year : RowYears, semester : RowSemesters]
  /\ pureOut = -1
  /\ last = [op |-> "init", branch |-> "done"]

\* semesterIndexFromRow(r.year, r.semester); -1 stands for null.
SemesterIndexFromRow ==
  /\ last.op = "init"
  /\ pureOut' = semesterIndexFromRow(pureIn.year.text, pureIn.semester.text)
  /\ last' = [op |-> "semesterIndexFromRow", branch |-> "done"]
  /\ UNCHANGED << semesters, presetId, currentSemesterIndex, showSummer,
                  prereqFailures, presetLoadToken, presetFetches, pureIn >>

NextRow == SemesterIndexFromRow

SpecRow == InitRow /\ [][NextRow]_vars

\* C25: semesterIndexFromRow gives 1 + 3 * year + term for the year
\* (freshman..senior = 0..3, whatever the case) and the term (fall, spring,
\* summer = 0, 1, 2, by prefix and whatever the case) the texts name; it gives
\* no index for an unknown year or term and for the senior summer, so the
\* index is one of 1..11 and never 0.
C25_RowIndexIsDetermined ==
  last.op = "semesterIndexFromRow" =>
    /\ pureOut = IF \/ pureIn.year.index < 0
                    \/ pureIn.semester.index < 0
                    \/ pureIn.year.index = 3 /\ pureIn.semester.index = 2
                   THEN -1
                   ELSE 1 + 3 * pureIn.year.index + pureIn.semester.index
    /\ pureOut \in {-1} \cup 1..11

\* The senior spring, written in upper case or with spaces around, is
\* semester 11; the freshman fall with a longer semester text is semester 1.
C25_Witness ==
  /\ last.op = "semesterIndexFromRow"
  /\ \/ /\ pureIn.year.text = << "s","e","n","i","o","r","\t" >>
        /\ pureIn.semester.text = << "s","p","r","i","n","g","t","i","m","e" >>
        /\ pureOut = 11
     \/ /\ pureIn.year.text = << "F","r","e","s","h","m","a","n" >>
        /\ pureIn.semester.text = << "f","a","l","l"," ","2","5" >>
        /\ pureOut = 1

(***************************************************************************)
(* parsePrereqGroups on arbitrary token streams                            *)
(***************************************************************************)
\* The longest token stream tried.
MaxStreamLen == 4

StreamTokens ==
  { normalizeRequirementCode(CS1), normalizeRequirementCode(MA1),
    TokAnd, TokOr, TokOpen, TokClose }

\* Every stream of up to MaxStreamLen tokens, well formed or not, and the two
\* expressions of three codes that tell the precedences apart.
\* seq with item put in after its first k elements.
insertedAt(seq, k, item) ==
  SubSeq(seq, 1, k) \o << item >> \o SubSeq(seq, k + 1, Len(seq))

\* The well-formed expressions of up to MaxStreamLen + 1 tokens over two
\* codes, with one more ")" put in at any place.
StrayCloseStreams ==
  { insertedAt(pair[1], pair[2], TokClose) :
      pair \in { pair \in exprsUpTo(ExprCodes \ {normalizeRequirementCode(MA2)},
                                    MaxStreamLen + 1) \X (0..(MaxStreamLen + 1)) :
                   pair[2] <= Len(pair[1]) } }

TokenStreams ==
  UNION { [1..n -> StreamTokens] : n \in 0..MaxStreamLen }
    \cup StrayCloseStreams
    \cup { << normalizeRequirementCode(CS1), TokOr, normalizeRequirementCode(MA1),
              TokAnd, normalizeRequirementCode(MA2) >>,
           << TokOpen, normalizeRequirementCode(CS1), TokOr,
              normalizeRequirementCode(MA1), TokClose, TokAnd,
              normalizeRequirementCode(MA2) >> }

InitStreams ==
  /\ FirstVisit
  /\ \E tokens \in TokenStreams :
       pureIn = [tokens |-> tokens, rawText |-> textOfTokens(tokens)]
  /\ pureOut = << >>
  /\ last = [op |-> "init", branch |-> "done"]

SpecStreams == InitStreams /\ [][NextParse]_vars

isCode(token) == token \notin {TokAnd, TokOr, TokOpen, TokClose}

codesOf(tokens) == { tokens[k] : k \in { k \in 1..Len(tokens) : isCode(tokens[k]) } }

\* The number of clause lists on the stack after n tokens of rpn, -1 once an
\* operator has found fewer than two of them.
RECURSIVE listsAfter(_, _)
listsAfter(rpn, n) ==
  IF n = 0 THEN 0
  ELSE IF listsAfter(rpn, n - 1) < 0 THEN -1
  ELSE IF isCode(rpn[n]) THEN listsAfter(rpn, n - 1) + 1
  ELSE IF listsAfter(rpn, n - 1) < 2 THEN -1
  ELSE listsAfter(rpn, n - 1) - 1

\* The stream was parsed, is not empty, and its RPN form does not reduce to
\* exactly one clause list.
notReduced ==
  /\ last.op = "parsePrereqGroups"
  /\ Len(pureIn.tokens) > 0
  /\ listsAfter(rpnFromTokens(pureIn.tokens), Len(rpnFromTokens(pureIn.tokens))) # 1

\* The result is one clause that holds every code of the text once, so that
\* it is satisfied exactly when all of them are available.
oneClauseOfAllCodes ==
  /\ Len(pureOut) = 1
  /\ SeqToSet(pureOut[1]) = codesOf(pureIn.tokens)
  /\ Len(pureOut[1]) = Cardinality(codesOf(pureIn.tokens))
  /\ \A avail \in SUBSET codesOf(pureIn.tokens) :
       someClauseWithin(pureOut, avail) <=> avail = codesOf(pureIn.tokens)

\* C26, as stated: when the RPN form of a non-empty token stream does not
\* reduce to exactly one clause list, parsePrereqGroups returns a single
\* clause holding every course code of the raw text, all of which are then
\* required.
C26_FallbackIsOneClause == notReduced => oneClauseOfAllCodes

\* C26, amended: when the RPN form of a non-empty token stream does not reduce
\* to exactly one clause list, parsePrereqGroups returns a single clause
\* holding every course code of the raw text, all of which are then required,
\* if the text holds a course code, and the empty formula if it holds none.
C26_FallbackIsOneClauseOrEmpty ==
  notReduced =>
    IF codesOf(pureIn.tokens) = {} THEN pureOut = << >> ELSE oneClauseOfAllCodes

\* Two codes that no operator joins, and an "and" that lacks its right
\* operand, each gave the one clause of the codes of the text.
C26_Witness ==
  /\ notReduced
  /\ pureIn.tokens \in
       { << normalizeRequirementCode(CS1), normalizeRequirementCode(MA1) >>,
         << normalizeRequirementCode(CS1), TokAnd, normalizeRequirementCode(MA1),
            TokOr >> }
  /\ oneClauseOfAllCodes

\* The number of "(" still open after the first n tokens, a ")" without an
\* open "(" closing nothing.
RECURSIVE openAfter(_, _)
openAfter(tokens, n) ==
  IF n = 0 THEN 0
  ELSE IF tokens[n] = TokOpen THEN openAfter(tokens, n - 1) + 1
  ELSE IF tokens[n] = TokClose /\ openAfter(tokens, n - 1) > 0
    THEN openAfter(tokens, n - 1) - 1
  ELSE openAfter(tokens, n - 1)

\* The places of the ")" tokens that have no matching "(".
strayCloses(tokens) ==
  { k \in 1..Len(tokens) : tokens[k] = TokClose /\ openAfter(tokens, k - 1) = 0 }

withoutToken(tokens, k) == SubSeq(tokens, 1, k - 1) \o SubSeq(tokens, k + 1, Len(tokens))

clausesOf(groups) == { SeqToSet(groups[g]) : g \in 1..Len(groups) }

\* C27: "and" binds tighter than "or" and parentheses override it: "A or B and
\* C" gives the clauses {A} and {B, C}, "(A or B) and C" gives {A, C} and
\* {B, C}; a ")" without a matching "(" is ignored, the clauses being those of
\* the stream without it; an empty token stream gives the empty formula.
C27_PrecedenceAndStrayParentheses ==
  last.op = "parsePrereqGroups" =>
    /\ pureIn.tokens = << normalizeRequirementCode(CS1), TokOr,
                          normalizeRequirementCode(MA1), TokAnd,
                          normalizeRequirementCode(MA2) >>
         => clausesOf(pureOut)
              = { {normalizeRequirementCode(CS1)},
                  {normalizeRequirementCode(MA1), normalizeRequirementCode(MA2)} }
    /\ pureIn.tokens = << TokOpen, normalizeRequirementCode(CS1), TokOr,
                          normalizeRequirementCode(MA1), TokClose, TokAnd,
                          normalizeRequirementCode(MA2) >>
         => clausesOf(pureOut)
              = { {normalizeRequirementCode(CS1), normalizeRequirementCode(MA2)},
                  {normalizeRequirementCode(MA1), normalizeRequirementCode(MA2)} }
    /\ Len(pureIn.tokens) = 0 => pureOut = << >>
    /\ \A k \in strayCloses(pureIn.tokens) :
         clausesOf(pureOut)
           = clausesOf(parsePrereqGroups(textOfTokens(withoutToken(pureIn.tokens, k))))

(***************************************************************************)
(* Courses that the catalog does not hold                                  *)
(***************************************************************************)
\* The filled slots whose course id is no id of the catalog.
unknownPlaces(sems) ==
  { place \in filledPlaces(sems) :
      sems[place[1] + 1].slots[place[2] + 1].courseId \notin NodeIds }

\* The schedule with the slots of courses outside the catalog emptied.
RECURSIVE withoutPlaces(_, _)
withoutPlaces(sems, places) ==
  IF places = {} THEN sems
  ELSE withoutPlaces(clearCourseSlots(sems, (CHOOSE place \in places : TRUE)[1],
                                      (CHOOSE place \in places : TRUE)[2]),
                     places \ { CHOOSE place \in places : TRUE })

\* Every code of one of the clauses is planned in the semester or before it.
clauseMet(sems, semIdx, clause) ==
  \A c \in 1..Len(clause) :
    \E place \in filledPlaces(sems) :
      codeAt(sems, place) = clause[c] /\ place[1] <= semIdx

\* C28: a slot whose course is not in the catalog is never reported with
\* missing prerequisites and adds no credits to any category (the credits
\* shown are those of the schedule without it), yet its canonical code is in
\* the earliest-semester index, at the first semester that holds it, and a
\* catalog course whose prerequisite clause it completes is not reported.
C28_UnknownCourseCountsOnlyAsPrerequisite ==
  /\ \A place \in unknownPlaces(semesters) :
       /\ place \notin DOMAIN prereqFailures
       /\ codeAt(semesters, place) \in DOMAIN courseToSem(semesters)
       /\ courseToSem(semesters)[codeAt(semesters, place)] <= place[1]
  /\ \A place \in filledPlaces(semesters) \ unknownPlaces(semesters) :
       (\E g \in 1..Len(nodePrereqGroups(slotAt(semesters, place[1], place[2]).courseId)) :
          clauseMet(semesters, place[1],
                    nodePrereqGroups(slotAt(semesters, place[1], place[2]).courseId)[g]))
         => place \notin DOMAIN prereqFailures
  /\ creditsDrawn =>
       pureOut = selectedCreditsOf(withoutPlaces(semesters, unknownPlaces(semesters)),
                                   pureIn, presetId)

\* The credits are drawn for a plan of XX 9 and CS 1 in the first semester and
\* CS 3 in the second: CS 3 is not reported, and the credits are those of
\* CS 1 and CS 3.
C28_Witness ==
  /\ creditsDrawn
  /\ slotAt(semesters, 0, 0).courseId = XX9
  /\ slotAt(semesters, 0, 1).courseId = CS1
  /\ slotAt(semesters, 1, 0).courseId = CS3
  /\ DOMAIN prereqFailures = {}
  /\ totalOf(pureOut) = 600

(***************************************************************************)
(* Properties of the missing required courses                              *)
(***************************************************************************)
panelDrawn == presetId # "" /\ pureIn.loaded

\* The codes of the entries of type required_coursework that list the major
\* and whose canonical code is in no slot of sems.
requiredAndUnplaced(sems) ==
  { pureIn.courseRequirements[canon].code :
      canon \in { canon \in DOMAIN pureIn.courseRequirements :
                   /\ pureIn.courseRequirements[canon].requirement_type
                        = "required_coursework"
                   /\ presetId \in pureIn.courseRequirements[canon].required_for_majors
                   /\ \A place \in filledPlaces(sems) : codeAt(sems, place) # canon } }

\* C29: with a major chosen and the requirements loaded, the missing-required
\* list holds exactly the courses whose entry has type required_coursework
\* and lists the major and whose canonical code is in no slot; a selectCourse
\* that places a listed course takes it off the list, and a clearCourse that
\* removes the last slot of a required course puts it back.
C29_MissingRequiredIsRequiredAndUnplaced ==
  /\ [](panelDrawn => SeqToSet(pureOut) = requiredAndUnplaced(semesters))
  /\ [][(panelDrawn /\ last'.branch = "done") =>
          \A place \in filledPlaces(semesters) \cup filledPlaces(semesters') :
            /\ (/\ last'.op = "selectCourse"
                /\ place \notin filledPlaces(semesters)
                /\ slotAt(semesters', place[1], place[2]).courseId \in SeqToSet(pureOut))
                 => slotAt(semesters', place[1], place[2]).courseId
                      \notin SeqToSet(pureOut')
            /\ (/\ last'.op = "clearCourse"
                /\ place \notin filledPlaces(semesters')
                /\ slotAt(semesters, place[1], place[2]).courseId
                     \in SeqToSet(requiredCourses(pureIn, presetId))
                /\ \A other \in filledPlaces(semesters') :
                     codeAt(semesters', other) # codeAt(semesters, place))
                 => slotAt(semesters, place[1], place[2]).courseId
                      \in SeqToSet(pureOut')]_vars

\* The last slot of MA 1 has just been cleared while HU 1 stays planned: for
\* "cs", with MA 1 and MA 2 required, both are listed, in order, and HU 1,
\* whose entry names "cs" under another type, is not.
C29_Witness ==
  /\ last = [op |-> "clearCourse", branch |-> "done"]
  /\ presetId = "cs"
  /\ pureIn = requirementsBothRequired
  /\ slotAt(semesters, 0, 0).courseId = NoCourse
  /\ slotAt(semesters, 1, 0).courseId = HU1
  /\ pureOut = << MA1, MA2 >>

(***************************************************************************)
(* The canonical form of course codes, on spellings of a code              *)
(***************************************************************************)
MaxCodeLen == 4

\* Letters in both cases, a digit, a space and a hyphen: the spellings of
\* "MA 1" among them.
SpellingChars == {"m", "M", "A", "1", " ", "-"}

Spellings == UNION { [1..n -> SpellingChars] : n \in 0..MaxCodeLen }

InitCodes ==
  /\ FirstVisit
  /\ pureIn \in Spellings
  /\ pureOut = [requirement |-> << >>, course |-> << >>]
  /\ last = [op |-> "init", branch |-> "done"]

\* normalizeRequirementCode(code) and normalizeCourseCode(code) of one text.
NormalizeCode ==
  /\ last.op = "init"
  /\ pureOut' = [requirement |-> normalizeRequirementCode(pureIn),
                 course |-> normalizeCourseCode(pureIn)]
  /\ last' = [op |-> "normalizeCode", branch |-> "done"]
  /\ UNCHANGED << semesters, presetId, currentSemesterIndex, showSummer,
                  prereqFailures, presetLoadToken, presetFetches, pureIn >>

NextCodes == NormalizeCode

SpecCodes == InitCodes /\ [][NextCodes]_vars

\* The letters and digits of a text, in order, the letters in lower case.
lettersAndDigits(code) ==
  SelectSeq(toLowerCase(code), LAMBDA c : c \in LowerChars \cup DigitChars)

\* The two texts differ in letter case, spaces and punctuation only.
sameButSpelling(code, other) == lettersAndDigits(code) = lettersAndDigits(other)

\* C30: both canonical forms of a code are fixed points of the functions,
\* and any code that differs from it only in letter case, spaces or
\* punctuation has the same canonical forms, so the catalog course and the
\* requirement entry found under the canonical form are the same for both.
C30_CanonicalFormIgnoresSpelling ==
  last.op = "normalizeCode" =>
    /\ normalizeRequirementCode(pureOut.requirement) = pureOut.requirement
    /\ normalizeCourseCode(pureOut.course) = pureOut.course
    /\ \A other \in Spellings :
         sameButSpelling(pureIn, other) =>
           /\ normalizeRequirementCode(other) = pureOut.requirement
           /\ normalizeCourseCode(other) = pureOut.course
           /\ codeToNodeId(normalizeCourseCode(other)) = codeToNodeId(pureOut.course)
           /\ hasRequirement(requirementsFile(0, 0), normalizeRequirementCode(other))
                = hasRequirement(requirementsFile(0, 0), pureOut.requirement)

\* "ma-1" has been brought to the canonical form "MA1", under which the
\* catalog holds MA 1.
C30_Witness ==
  /\ last.op = "normalizeCode"
  /\ pureIn = << "m", "A", "-", "1" >>
  /\ pureOut.requirement = << "M", "A", "1" >>
  /\ codeToNodeId(pureOut.course) = MA1

(***************************************************************************)
(* The preset selector with loads that succeed, fail or come back damaged  *)
(***************************************************************************)
NextLoads ==
  \/ \E newPresetId \in PresetArgs : ApplyPreset(newPresetId)
  \/ \E token \in 1..MaxPresetLoads, id \in PresetIds, outcome \in FetchOutcomes :
       PresetFetchDone([token |-> token, id |-> id], outcome)

SpecLoads == Init /\ [][NextLoads]_vars

\* The slots of the schedule that hold a course a preset wrote.
presetSlots(sems) ==
  { place \in filledPlaces(sems) : slotAt(sems, place[1], place[2]).source = "preset" }

\* C31: when no preset load is pending, every slot with source "preset"
\* carries the preset id of the state, so with the empty preset no slot has
\* source "preset".
C31_PresetSlotsCarryCurrentPreset ==
  presetFetches = {} =>
    \A place \in presetSlots(semesters) :
      slotAt(semesters, place[1], place[2]).presetId = presetId

\* C32: when a load fails (fetch, parsing, or a file that is no array), the
\* preset id is empty afterwards and no slot holds a preset course, if the
\* load is the latest one; the failure of a superseded load leaves the preset
\* id as it is.
C32_FailedLoadRevertsToEmptyPreset ==
  [][(last'.op = "presetFetch" /\ last'.branch = "catch") =>
       \A req \in presetFetches \ presetFetches' :
         IF req.token = presetLoadToken
           THEN presetId' = "" /\ presetSlots(semesters') = {}
           ELSE presetId' = presetId]_vars

(***************************************************************************)
(* Start-up: the preset index loads, then the user acts                    *)
(***************************************************************************)
\* A plan stored before presets filled slots: the preset id "cs" with one
\* manual course and no preset slot.
rawUpgradedPlan ==
  [stored |-> TRUE, presetId |-> "cs", currentSemesterIndex |-> finiteNumber(1),
   showSummer |-> TRUE,
   semesters |->
     [i \in 1..12 |->
        IF i = 2 THEN rawSemester(<< rawManual(MA2) >> \o [j \in 1..7 |-> rawEmptySlot])
        ELSE rawEmptySemester]]

InitStartup ==
  \E raw \in RawStates \cup {rawUpgradedPlan} :
    /\ semesters = normalizeLoadedState(raw).semesters
    /\ presetId = normalizeLoadedState(raw).presetId
    /\ showSummer = normalizeLoadedState(raw).showSummer
    /\ prereqFailures = renderPrereqFailures(normalizeLoadedState(raw).semesters)
    /\ currentSemesterIndex =
         renderSemesterIndex(normalizeLoadedState(raw).semesters,
                             normalizeLoadedState(raw).showSummer,
                             normalizeLoadedState(raw).currentSemesterIndex)
    /\ presetLoadToken = 0
    /\ presetFetches = {}
    /\ last = [op |-> "init", branch |-> "done"]
    /\ pureIn = NULL
    /\ pureOut = NULL

\* state.semesters.some(sem => sem.slots.some(s => s && s.source === "preset"))
hasPresetSlots(sems) ==
  \E i \in 1..Len(sems) : \E j \in 1..Len(sems[i].slots) :
    sems[i].slots[j].source = "preset"

\* loadPresetIndex().then(...): the first callback to run after the initial
\* render.
PresetIndexLoaded ==
  /\ last.op = "init"
  /\ IF presetId # "" /\ ~hasPresetSlots(semesters)
       THEN ApplyPreset(presetId)
       ELSE Returned("presetIndexLoaded", "nothing")

NextStartup ==
  \/ PresetIndexLoaded
  \/ /\ last.op # "init"
     /\ \E newPresetId \in PresetArgs : ApplyPreset(newPresetId)
  \/ /\ last.op # "init"
     /\ \E token \in 1..MaxPresetLoads, id \in PresetIds :
          PresetFetchDone([token |-> token, id |-> id], "rows")

SpecStartup == InitStartup /\ [][NextStartup]_vars

\* C33: when the preset index has loaded at start-up and the stored preset
\* id names a known preset while no slot has source "preset", the preset is
\* applied: the load of its file is under way after the callback.
C33_StoredPresetAppliedAtStartup ==
  [][(/\ last.op = "init"
      /\ presetId \in PresetIds
      /\ ~hasPresetSlots(semesters))
       => /\ presetId' = presetId
          /\ \E req \in presetFetches' : req.id = presetId /\ req.token = presetLoadToken']_vars

(***************************************************************************)
(* Properties of clearPresetSelections inside applyPreset                  *)
(***************************************************************************)
\* The number of slots of the semester in which id is a manual course.
manualCount(sem, id) ==
  Cardinality({ j \in 1..Len(sem.slots) :
                  sem.slots[j].source = "manual" /\ sem.slots[j].courseId = id })

\* A supplemental slot that a preset added and still fills.
presetFilledExtra(slot) == slot.isExtra /\ slot.addedByPreset /\ slot.source = "preset"

\* The slots of the semester but the supplemental slots a preset added and
\* still fills, without the courses that presets wrote.
withoutPresetCourses(sem) ==
  [j \in 1..Len(SelectSeq(sem.slots, LAMBDA slot : ~presetFilledExtra(slot))) |->
     IF SelectSeq(sem.slots, LAMBDA slot : ~presetFilledExtra(slot))[j].source = "preset"
       THEN emptySlot(SelectSeq(sem.slots,
                                LAMBDA slot : ~presetFilledExtra(slot))[j].isExtra, FALSE)
       ELSE SelectSeq(sem.slots, LAMBDA slot : ~presetFilledExtra(slot))[j]] @@ << >>

noDuplicates(sems) == \A id \in NodeIds \cup {XX9} : courseCount(sems, id) <= 1

\* C35: neither step of applyPreset creates a duplicate: the clearing never
\* adds a slot of a course, and when the rows are written a course that
\* occupied a slot occupies as many slots as before and any other course at
\* most one; so a schedule without duplicates stays without duplicates.
C35_PresetCreatesNoDuplicate ==
  [][(\/ last'.op = "applyPreset"
      \/ last'.op = "presetFetch") =>
       /\ \A id \in NodeIds \cup {XX9} :
            courseCount(semesters', id)
              <= IF courseCount(semesters, id) = 0 THEN 1 ELSE courseCount(semesters, id)
       /\ noDuplicates(semesters) => noDuplicates(semesters')]_vars

\* The rows of "cs" have been written next to the manual CS 1 of the second
\* semester: CS 1, which two rows name, still occupies that one slot, and
\* CS 2 occupies one slot, written by the preset.
C35_Witness ==
  /\ last = [op |-> "presetFetch", branch |-> "rows"]
  /\ presetId = "cs"
  /\ courseCount(semesters, CS1) = 1
  /\ slotAt(semesters, 1, 0).courseId = CS1
  /\ slotAt(semesters, 1, 0).source = "manual"
  /\ courseCount(semesters, CS2) = 1
  /\ \E place \in presetSlots(semesters) :
       slotAt(semesters, place[1], place[2]).courseId = CS2

(***************************************************************************)
(* The graph filters: departments and "hide non-selected"                  *)
(*                                                                         *)
(* In SpecFilters pureIn holds the check boxes (allowed: the departments   *)
(* whose box is checked; hideNonSelected: hideCb.checked) and pureOut the  *)
(* flags of the graph data sets, each as the set of ids whose flag is set. *)
(***************************************************************************)
Departments == { nodes[id].dept : id \in NodeIds }

\* The prerequisite edges of the graph; the edge into CS 3 comes from a
\* course that is no node.
Edges ==
  { [from |-> CS1, to |-> CS2], [from |-> MA1, to |-> CS2],
    [from |-> MA2, to |-> CS2], [from |-> MA1, to |-> MA2],
    [from |-> XX9, to |-> CS3] }

\* The data sets as loaded: no flag set.
graphAsLoaded ==
  [hiddenDept |-> {}, hiddenDegreeBuilder |-> {}, hidden |-> {}, hiddenEdges |-> {}]

edgeHidden(e, hiddenNodes) ==
  \/ e.from \notin NodeIds
  \/ e.to \notin NodeIds
  \/ e.from \in hiddenNodes
  \/ e.to \in hiddenNodes

\* A slip: the hidden flag is taken from the department filter alone.
applyCombinedVisibilityOfDept(graph) ==
  [graph EXCEPT
     !.hidden = graph.hiddenDept,
     !.hiddenEdges = { e \in Edges : edgeHidden(e, graph.hiddenDept) }]

applyCombinedVisibility(graph) ==
  [graph EXCEPT
     !.hidden = graph.hiddenDept \cup graph.hiddenDegreeBuilder,
     !.hiddenEdges =
        { e \in Edges : edgeHidden(e, graph.hiddenDept \cup graph.hiddenDegreeBuilder) }]

applyDeptFilter(graph, allowed) ==
  applyCombinedVisibility(
    [graph EXCEPT !.hiddenDept = { id \in NodeIds : nodes[id].dept \notin allowed }])

\* A slip: with the option enabled a node is hidden when it IS planned.
applyDegreeBuilderFilterInverted(graph, hideNonSelected, sems) ==
  applyCombinedVisibility(
    [graph EXCEPT !.hiddenDegreeBuilder =
       IF ~hideNonSelected THEN {}
       ELSE { id \in NodeIds : id \in getAllSelectedCourseIdSet(sems) }])

applyDegreeBuilderFilter(graph, hideNonSelected, sems) ==
  applyCombinedVisibility(
    [graph EXCEPT !.hiddenDegreeBuilder =
       IF ~hideNonSelected THEN {}
       ELSE { id \in NodeIds : id \notin getAllSelectedCourseIdSet(sems) }])

\* The first visit, with the stored "hide non-selected" option on or off and
\* every department box checked.
InitFilters ==
  /\ FirstVisit
  /\ \E hideNonSelected \in BOOLEAN :
       /\ pureIn = [allowed |-> Departments, hideNonSelected |-> hideNonSelected]
       /\ pureOut = applyDegreeBuilderFilter(graphAsLoaded, hideNonSelected, semesters)
  /\ last = [op |-> "init", branch |-> "done"]

FilterFrame ==
  UNCHANGED << semesters, presetId, currentSemesterIndex, showSummer, prereqFailures,
               presetLoadToken, presetFetches >>

\* A department box is checked or unchecked: applyDeptFilter.
DeptToggle(dept) ==
  /\ pureIn' = [pureIn EXCEPT !.allowed = IF dept \in @ THEN @ \ {dept} ELSE @ \cup {dept}]
  /\ pureOut' = applyDeptFilter(pureOut, pureIn'.allowed)
  /\ last' = [op |-> "deptFilter", branch |-> "toggle"]
  /\ FilterFrame

\* The show-all and hide-all buttons.
DeptAll(checked) ==
  /\ pureIn' = [pureIn EXCEPT !.allowed = IF checked THEN Departments ELSE {}]
  /\ pureOut' = applyDeptFilter(pureOut, pureIn'.allowed)
  /\ last' = [op |-> "deptFilter", branch |-> IF checked THEN "showAll" ELSE "hideAll"]
  /\ FilterFrame

\* The change handler of the "hide non-selected" box.
HideNonSelectedToggle ==
  /\ pureIn' = [pureIn EXCEPT !.hideNonSelected = ~@]
  /\ pureOut' = applyDegreeBuilderFilter(pureOut, ~pureIn.hideNonSelected, semesters)
  /\ last' = [op |-> "hideNonSelected", branch |-> "toggle"]
  /\ FilterFrame

\* saveState(); render(); applyDegreeBuilderFilter()
RenderedAndFiltered(sems) ==
  /\ Rendered(sems)
  /\ pureIn' = pureIn
  /\ pureOut' = applyDegreeBuilderFilter(pureOut, pureIn.hideNonSelected, sems)

\* selectCourse: the box of the course's department is checked first when
\* it is not, with applyDeptFilter.
SelectCourseAndFilter(semIdx, slotIdx, nodeId) ==
  IF ~slotExists(semesters, semIdx, slotIdx)
    THEN Returned("selectCourse", "return")
    ELSE /\ Rendered(selectCourseSlots(semesters, semIdx, slotIdx, nodeId))
         /\ pureIn' = [pureIn EXCEPT
                         !.allowed = IF nodeId \in NodeIds
                                       THEN @ \cup {nodes[nodeId].dept} ELSE @]
         /\ pureOut' =
              applyDegreeBuilderFilter(
                IF pureIn'.allowed # pureIn.allowed
                  THEN applyDeptFilter(pureOut, pureIn'.allowed) ELSE pureOut,
                pureIn.hideNonSelected,
                selectCourseSlots(semesters, semIdx, slotIdx, nodeId))
         /\ last' = [op |-> "selectCourse", branch |-> "done"]
         /\ UNCHANGED << presetId, showSummer, presetLoadToken, presetFetches >>

ClearCourseAndFilter(semIdx, slotIdx) ==
  IF ~slotExists(semesters, semIdx, slotIdx)
    THEN Returned("clearCourse", "return")
    ELSE /\ RenderedAndFiltered(clearCourseSlots(semesters, semIdx, slotIdx))
         /\ last' = [op |-> "clearCourse", branch |-> "done"]
         /\ UNCHANGED << presetId, showSummer, presetLoadToken, presetFetches >>

RemoveExtraSlotAndFilter(semIdx, slotIdx) ==
  IF ~removableSlot(semesters, semIdx, slotIdx)
    THEN Returned("removeExtraSlot", "return")
    ELSE /\ RenderedAndFiltered(removeExtraSlotSlots(semesters, semIdx, slotIdx))
         /\ last' = [op |-> "removeExtraSlot",
                     branch |-> IF filledSlot(slotAt(semesters, semIdx, slotIdx))
                                  THEN "removedFilled" ELSE "removedEmpty"]
         /\ UNCHANGED << presetId, showSummer, presetLoadToken, presetFetches >>

MoveCourseAndFilter(fromSemIdx, fromSlotIdx, toSemIdx, toSlotIdx) ==
  /\ toSlotIdx = NoIndex => addressableDrop(semesters, toSemIdx)
  /\ IF moveCourseResult(semesters, fromSemIdx, fromSlotIdx, toSemIdx, toSlotIdx).branch
          \in {"noSource", "samePlace", "noTargetSemester"}
       THEN Returned("moveCourse",
                     moveCourseResult(semesters, fromSemIdx, fromSlotIdx,
                                      toSemIdx, toSlotIdx).branch)
       ELSE /\ withinSlotBound(moveCourseResult(semesters, fromSemIdx, fromSlotIdx,
                                                toSemIdx, toSlotIdx).semesters)
            /\ RenderedAndFiltered(moveCourseResult(semesters, fromSemIdx, fromSlotIdx,
                                                    toSemIdx, toSlotIdx).semesters)
            /\ last' = [op |-> "moveCourse",
                        branch |-> moveCourseResult(semesters, fromSemIdx, fromSlotIdx,
                                                    toSemIdx, toSlotIdx).branch]
            /\ UNCHANGED << presetId, showSummer, presetLoadToken, presetFetches >>

ApplyPresetAndFilter(newPresetId) ==
  IF newPresetId = presetId
    THEN Returned("applyPreset", "same")
    ELSE /\ (newPresetId \in PresetIds) => presetLoadToken < MaxPresetLoads
         /\ RenderedAndFiltered(clearPresetSelections(semesters))
         /\ presetId' = newPresetId
         /\ presetLoadToken' = IF newPresetId \in PresetIds THEN presetLoadToken + 1
                               ELSE presetLoadToken
         /\ presetFetches' =
              IF newPresetId \in PresetIds
                THEN presetFetches \cup {[token |-> presetLoadToken + 1, id |-> newPresetId]}
                ELSE presetFetches
         /\ last' = [op |-> "applyPreset",
                     branch |-> IF newPresetId = "" THEN "empty"
                                ELSE IF newPresetId \in PresetIds THEN "loading"
                                ELSE "unknown"]
         /\ UNCHANGED showSummer

PresetFetchDoneAndFilter(req, outcome) ==
  /\ req \in presetFetches
  /\ presetFetches' = presetFetches \ {req}
  /\ UNCHANGED << showSummer, presetLoadToken >>
  /\ IF outcome = "failed" \/ (outcome = "notArray" /\ req.token = presetLoadToken)
       THEN /\ presetId' = ""
            /\ RenderedAndFiltered(semesters)
            /\ last' = [op |-> "presetFetch", branch |-> "catch"]
     ELSE IF req.token # presetLoadToken
       THEN /\ last' = [op |-> "presetFetch", branch |-> "superseded"]
            /\ UNCHANGED << semesters, presetId, currentSemesterIndex, prereqFailures,
                            pureIn, pureOut >>
     ELSE /\ withinSlotBound(assignPresetRows(semesters, presetRows(req.id), 1,
                                              getAllSelectedCourseIdSet(semesters), req.id))
          /\ RenderedAndFiltered(assignPresetRows(semesters, presetRows(req.id), 1,
                                                  getAllSelectedCourseIdSet(semesters),
                                                  req.id))
          /\ last' = [op |-> "presetFetch", branch |-> "rows"]
          /\ UNCHANGED presetId

\* The filters, the mutators on the slots 0 and 8 of the second semester,
\* the preset "cs", and addSlot, which calls no filter.
NextFilters ==
  \/ DeptToggle("Computer Science")
  \/ \E checked \in BOOLEAN : DeptAll(checked)
  \/ HideNonSelectedToggle
  \/ \E slotIdx \in {0, 8}, nodeId \in {CS1, MA1} : SelectCourseAndFilter(1, slotIdx, nodeId)
  \/ \E slotIdx \in {0, 8} : ClearCourseAndFilter(1, slotIdx)
  \/ \E slotIdx \in {0, 8} : RemoveExtraSlotAndFilter(1, slotIdx)
  \/ \E fromSlotIdx \in {0, 8}, toSlotIdx \in {0, 8} :
       MoveCourseAndFilter(1, fromSlotIdx, 1, toSlotIdx)
  \/ \E newPresetId \in {"", "cs"} : ApplyPresetAndFilter(newPresetId)
  \/ \E token \in 1..MaxPresetLoads, outcome \in {"rows", "failed"} :
       PresetFetchDoneAndFilter([token |-> token, id |-> "cs"], outcome)
  \/ AddSlot(1)

SpecFilters == InitFilters /\ [][NextFilters]_vars

(***************************************************************************)
(* Properties of the graph filters                                         *)
(***************************************************************************)
\* C36: the hidden flag of every node is the OR of its two reasons, and an
\* edge is hidden exactly when an endpoint is missing or hidden; a filter
\* step changes only its own reason: the department filter leaves
\* hiddenDegreeBuilder as it is, and "hide non-selected" leaves hiddenDept.
C36_HiddenIsTheOrOfReasons ==
  /\ [](/\ \A id \in NodeIds :
             id \in pureOut.hidden
               <=> (id \in pureOut.hiddenDept \/ id \in pureOut.hiddenDegreeBuilder)
        /\ \A e \in Edges :
             e \in pureOut.hiddenEdges
               <=> (\/ e.from \notin NodeIds \/ e.to \notin NodeIds
                    \/ e.from \in pureOut.hidden \/ e.to \in pureOut.hidden))
  /\ [][/\ last'.op = "deptFilter"
             => pureOut'.hiddenDegreeBuilder = pureOut.hiddenDegreeBuilder
        /\ last'.op = "hideNonSelected" => pureOut'.hiddenDept = pureOut.hiddenDept]_vars

\* MA 1 is planned while its department stays checked and Computer Science
\* is unchecked, with "hide non-selected" on: CS 1 is hidden for both
\* reasons, HU 1 for the second only, MA 1 is shown, and the edge from MA 1
\* to MA 2 is hidden for its target.
C36_Witness ==
  /\ pureIn.hideNonSelected
  /\ "Computer Science" \notin pureIn.allowed
  /\ "Mathematics" \in pureIn.allowed
  /\ CS1 \in pureOut.hiddenDept \cap pureOut.hiddenDegreeBuilder
  /\ HU1 \in pureOut.hiddenDegreeBuilder \ pureOut.hiddenDept
  /\ MA1 \notin pureOut.hidden
  /\ [from |-> MA1, to |-> MA2] \in pureOut.hiddenEdges

saveState(sems, id, currentIdx, summer) ==
  [stored |-> TRUE, presetId |-> id, currentSemesterIndex |-> finiteNumber(currentIdx),
   showSummer |-> summer,
   semesters |->
     [i \in 1..Len(sems) |->
        rawSemester([j \in 1..Len(sems[i].slots) |->
                       rawSlot(sems[i].slots[j].courseId, sems[i].slots[j].source,
                               sems[i].slots[j].presetId,
                               sems[i].slots[j].addedByPreset)] @@ << >>)] @@ << >>]

\* The course, source, preset id and supplemental flag of every slot.
slotContents(sems) ==
  [i \in 1..Len(sems) |->
     [j \in 1..Len(sems[i].slots) |->
        << sems[i].slots[j].courseId, sems[i].slots[j].source,
           sems[i].slots[j].presetId, sems[i].slots[j].isExtra >>] @@ << >>] @@ << >>

\* C38: loading the state that saveState wrote gives the same semesters with
\* the same slots (course, source, preset id, supplemental flag), appended
\* semesters and supplemental slots included.
C38_SavedStateLoadsBack ==
  slotContents(normalizeLoadedState(
                 saveState(semesters, presetId, currentSemesterIndex, showSummer)).semesters)
    = slotContents(semesters)

(***************************************************************************)
(* The schedule operations from the default initial state                  *)
(***************************************************************************)
InitDefault ==
  /\ FirstVisit
  /\ last = [op |-> "init", branch |-> "done"]
  /\ pureIn = NULL
  /\ pureOut = NULL

\* The user fills the base slots of the freshman spring semester from the
\* first to the last, so that the preset "me", which writes into that
\* semester, finds it full.
FillNextSlot ==
  \E slotIdx \in 1..(BaseSlots - 1) :
    /\ \A j \in 0..(slotIdx - 1) : filledSlot(slotAt(semesters, 2, j))
    /\ ~filledSlot(slotAt(semesters, 2, slotIdx))
    /\ SelectCourse(2, slotIdx, HU1)

NextDefault ==
  \/ Mutate({2}, {0, 8}, {CS2})
  \/ FillNextSlot
  \/ \E newPresetId \in {"", "me"} : ApplyPreset(newPresetId)
  \/ \E token \in 1..MaxPresetLoads, outcome \in {"rows", "failed"} :
       PresetFetchDone([token |-> token, id |-> "me"], outcome)

SpecDefault == InitDefault /\ [][NextDefault]_vars

\* C39: in every slot the course is empty exactly when the source is empty,
\* a preset id is set only when the source is "preset", and addedByPreset is
\* true only when the slot holds a preset-sourced course.
C39_SlotFieldsAreConsistent ==
  \A k \in slotKeys(semesters) :
    /\ slotAt(semesters, k[1], k[2]).courseId = NoCourse
         <=> slotAt(semesters, k[1], k[2]).source = NULL
    /\ slotAt(semesters, k[1], k[2]).presetId # NULL
         => slotAt(semesters, k[1], k[2]).source = "preset"
    /\ slotAt(semesters, k[1], k[2]).addedByPreset
         => (/\ slotAt(semesters, k[1], k[2]).source = "preset"
             /\ slotAt(semesters, k[1], k[2]).courseId # NoCourse)

\* The preset "me" found the freshman spring semester full and wrote its
\* course into a supplemental slot it added; the course was then moved to the
\* first base slot, which keeps the source, the preset id and the
\* addedByPreset mark, and the supplemental slot it left is gone.
C39_Witness ==
  /\ last.op = "moveCourse"
  /\ Len(semesters[3].slots) = BaseSlots
  /\ slotAt(semesters, 2, 0).courseId = MA1
  /\ slotAt(semesters, 2, 0).source = "preset"
  /\ slotAt(semesters, 2, 0).presetId = "me"
  /\ slotAt(semesters, 2, 0).addedByPreset

(***************************************************************************)
(* Properties of the semester shown                                        *)
(***************************************************************************)
\* C40: after every render the index of the semester shown is the index of
\* an existing semester, and that semester is visible under the showSummer
\* setting, whatever index was loaded and whatever semesters were added or
\* removed, pages turned and summers shown or hidden.
C40_ShownSemesterExistsAndIsVisible ==
  /\ currentSemesterIndex >= 0
  /\ currentSemesterIndex < Len(semesters)
  /\ currentSemesterIndex \in SeqToSet(getVisibleSemesterIndices(semesters, showSummer))
  /\ ~showSummer => ~isSummerLabel(semesterLabel(currentSemesterIndex))

\* The summers have just been hidden and the semester shown is the fall that
\* follows the third summer, after a semester was added: the page is on a
\* semester that is still there and is not a summer.
C40_Witness ==
  /\ last.op = "showSummer"
  /\ ~showSummer
  /\ Len(semesters) > Len(SEMESTERS_DEFAULT)
  /\ currentSemesterIndex = 7

=============================================================================
